---------------------------- MODULE Spec2Model ----------------------------
(***************************************************************************)
(* A model of src/src/stl.rs: the binary STL encoder (write_stl), the      *)
(* binary decoder (BinaryStlReader), the format probe and decoder          *)
(* selection (AsciiStlReader::probe, create_stl_reader) and the ASCII      *)
(* decoder (AsciiStlReader).                                               *)
(*                                                                         *)
(* Data representation.                                                    *)
(*   - A byte is an integer 0..255; a source or sink is a sequence of      *)
(*     bytes.                                                              *)
(*   - An f32 is the record [s, e, m] of its IEEE-754 fields (sign, biased *)
(*     exponent, 23-bit mantissa); f32::to_le_bytes / from_le_bytes are    *)
(*     the operators that lay these fields out in four bytes.              *)
(*   - A Triangle is [normal |-> <<f,f,f>>, vertices |-> <<v,v,v>>].       *)
(*   - An io::Error is [kind, msg]; an Ok value carries kind "Ok".         *)
(***************************************************************************)
EXTENDS Integers, Sequences, FiniteSets, TLC

(***************************************************************************)
(* Bounds of the model.                                                    *)
(***************************************************************************)
\* longest mesh handed to write_stl
MaxTriangles == 2
\* most next() calls made on one decoder
MaxNextCalls == 4
\* a scaled-down BufWriter capacity, used beside the real one so that the
\* buffer fills up in the middle of a mesh
SmallBufCapacity == 64

\* std's buffer size for BufWriter::new / BufReader::new
DEFAULT_BUF_SIZE == 8 * 1024

Min(a, b) == IF a < b THEN a ELSE b

Zeros(n) == [i \in 1..n |-> 0]

Prefix(s, k) == SubSeq(s, 1, k)

Drop(s, k) == SubSeq(s, k + 1, Len(s))

\* F applied to the value of v: v is evaluated once, as a `let` binding of
\* the source is
Bind(v, F(_)) == CHOOSE r \in { F(x) : x \in {v} } : TRUE

(***************************************************************************)
(* Little-endian conversions.                                              *)
(***************************************************************************)
\* a mutant of u32_to_le_bytes: most significant byte first
u32_to_be_bytes(x) ==
    << (x \div 16777216) % 256, (x \div 65536) % 256, (x \div 256) % 256, x % 256 >>

\* u32::to_le_bytes
u32_to_le_bytes(x) ==
    << x % 256, (x \div 256) % 256, (x \div 65536) % 256, (x \div 16777216) % 256 >>

\* u32::from_le_bytes
u32_from_le_bytes(b) ==
    b[1] + 256 * b[2] + 65536 * b[3] + 16777216 * b[4]

\* f32::to_le_bytes: mantissa in bytes 0..2 (with the exponent's low bit on
\* top of byte 2), the exponent's high seven bits and the sign in byte 3
f32_to_le_bytes(f) ==
    << f.m % 256,
       (f.m \div 256) % 256,
       (f.e % 2) * 128 + (f.m \div 65536),
       f.s * 128 + (f.e \div 2) >>

\* f32::from_le_bytes
f32_from_le_bytes(b) ==
    [s |-> b[4] \div 128,
     e |-> (b[4] % 128) * 2 + (b[3] \div 128),
     m |-> (b[3] % 128) * 65536 + b[2] * 256 + b[1]]

\* u16::to_le_bytes
u16_to_le_bytes(x) == << x % 256, (x \div 256) % 256 >>

(***************************************************************************)
(* Floats and triangles the model draws its inputs from.                   *)
(***************************************************************************)
\* 1.0
F_one == [s |-> 0, e |-> 127, m |-> 0]
\* 3.1415927 (0x40490FDB)
F_pi == [s |-> 0, e |-> 128, m |-> 4788187]
\* -0.0
F_negzero == [s |-> 1, e |-> 0, m |-> 0]
\* a NaN with a payload (0x7FC00001)
F_nan == [s |-> 0, e |-> 255, m |-> 4194305]
\* -0.5711105 (0xBF123456)
F_neg == [s |-> 1, e |-> 126, m |-> 1193046]
\* 2.0
F_two == [s |-> 0, e |-> 128, m |-> 0]

T_A == [normal |-> <<F_pi, F_one, F_negzero>>,
        vertices |-> << <<F_one, F_pi, F_nan>>,
                        <<F_neg, F_one, F_pi>>,
                        <<F_negzero, F_neg, F_two>> >>]

T_B == [normal |-> <<F_neg, F_two, F_pi>>,
        vertices |-> << <<F_two, F_neg, F_one>>,
                        <<F_pi, F_nan, F_neg>>,
                        <<F_one, F_two, F_pi>> >>]

TrianglePool == {T_A, T_B}

Meshes == UNION { [1..n -> TrianglePool] : n \in 0..MaxTriangles }

(***************************************************************************)
(* Errors.                                                                 *)
(***************************************************************************)
NoError == [kind |-> "Ok", msg |-> ""]

Error(kind, msg) == [kind |-> kind, msg |-> msg]

\* the error a failing source or sink returns; propagated verbatim by `?`
IoError == Error("Other", "io failure")

VARIABLES
    \* write_stl
    mesh,          \* the triangles handed to write_stl
    wcap,          \* capacity of write_stl's BufWriter
    wpc,           \* position of write_stl: the next statement to run
    wk, wv, wi,    \* loop indices: triangle, vertex, component
    wbuf,          \* bytes held in the BufWriter
    sink,          \* bytes the underlying writer has accepted
    sinkFlushed,   \* the underlying writer was flushed after its last write
    sinkFailed,    \* some call on the underlying writer returned an error
    wres,          \* write_stl's result: "running", "ok" or "err"
    \* the byte source handed to the decoders
    src,           \* its contents
    srcFault,      \* TRUE: reading at its end returns an io error, not EOF
    seekFails,     \* TRUE: seek() on it returns an error
    spos,          \* its read position
    \* the decoder
    dec,           \* "none", "binary" or "ascii": which decoder exists
    createErr,     \* the error the constructor returned, or NoError
    index, size,   \* BinaryStlReader's fields
    dstart,        \* source offset at which the decoder started to read
    dpos,          \* source offset up to which the decoder has consumed
    ctor,          \* "none", "binary" or "ascii": the constructor that ran
    via,           \* "direct", "create_stl_reader" or "read_stl": who called it
    out,           \* history: what each next() call returned, in order
    pulled,        \* history: the token lines each ASCII next() call took
    \* AsciiStlReader::probe
    probeDone,     \* probe has returned
    probeStart,    \* the source's read position when probe was called
    probeErr,      \* what probe returned (NoError for Ok(()))
    \* TriangleIterator::as_indexed_triangles
    stream,        \* the items the triangle stream yields, in order, before None
    asked,         \* how many times the stream's next() was called
    ipc,           \* "next": at the head of the for loop; "vertex": in the inner loop
    cur,           \* the triangle the for loop holds
    corner,        \* the inner loop's i, from 1
    vertices,      \* Vec<Vertex>
    triangles,     \* Vec<IndexedTriangle>
    vertex_to_index,  \* HashMap from bit patterns to indices
    vertex_indices,   \* [usize; 3]
    ires,          \* the result: "running", or [kind |-> "Ok" | "Err", ...]
    \* IndexedMesh::validate
    vmesh,         \* self
    fi,            \* the outer loop's face index, from 0
    unconnected_edges,  \* HashMap from (usize, usize) to (usize, usize, usize)
    vres,          \* the result: [kind |-> "Idle" | "Running" | "Ok" | "Err", ...]
    \* impl PartialEq for Vec3<f32>
    ea, eb,        \* self and other
    eres           \* [of |-> "none"] before the call, then which eq ran and what it returned

writerVars == <<mesh, wcap, wpc, wk, wv, wi, wbuf, sink, sinkFlushed, sinkFailed, wres>>
sourceVars == <<src, srcFault, seekFails, spos>>
decoderVars == <<dec, createErr, index, size, dstart, dpos, ctor, via, out, pulled>>
probeVars == <<probeDone, probeStart, probeErr>>
codecVars == <<writerVars, sourceVars, decoderVars, probeVars>>
indexerVars == <<stream, asked, ipc, cur, corner, vertices, triangles, vertex_to_index,
                 vertex_indices, ires>>
validateVars == <<vmesh, fi, unconnected_edges, vres>>
eqVars == <<ea, eb, eres>>
meshVars == <<indexerVars, validateVars, eqVars>>
vars == <<codecVars, meshVars>>


(***************************************************************************)
(* BufWriter over the caller's writer.  Every operator returns the set of  *)
(* outcomes [ok, buf, sink] the call can have: the underlying writer may   *)
(* accept everything, or fail after having accepted a part.                *)
(***************************************************************************)
WOutcome(ok, buf, snk) == [ok |-> ok, buf |-> buf, sink |-> snk]

\* BufWriter::flush_buf: hand the buffer to the underlying writer until it is
\* empty; on an error the bytes already accepted leave the buffer
flush_buf(buf, snk) ==
    {WOutcome(TRUE, <<>>, snk \o buf)}
    \cup {WOutcome(FALSE, Drop(buf, k), snk \o Prefix(buf, k)) : k \in 0..(Len(buf) - 1)}

\* the underlying writer's write_all, reached when a chunk is at least as
\* large as the buffer
inner_write_all(buf, snk, chunk) ==
    {WOutcome(TRUE, buf, snk \o chunk)}
    \cup {WOutcome(FALSE, buf, snk \o Prefix(chunk, k)) : k \in 0..(Len(chunk) - 1)}

\* the underlying writer's write: it may accept only a part and say so in
\* its return value
inner_write(buf, snk, chunk) ==
    {WOutcome(TRUE, buf, snk \o Prefix(chunk, k)) : k \in 0..Len(chunk)}
    \cup {WOutcome(FALSE, buf, snk)}

\* BufWriter::write (all = FALSE) and BufWriter::write_all (all = TRUE)
bufwriter_write(cap, buf, snk, chunk, all) ==
    IF Len(chunk) < cap - Len(buf)
    THEN {WOutcome(TRUE, buf \o chunk, snk)}
    ELSE LET flushed == IF Len(chunk) > cap - Len(buf)
                        THEN flush_buf(buf, snk)
                        ELSE {WOutcome(TRUE, buf, snk)}
         IN UNION { IF ~f.ok THEN {f}
                    ELSE IF Len(chunk) >= cap
                         THEN IF all THEN inner_write_all(f.buf, f.sink, chunk)
                                     ELSE inner_write(f.buf, f.sink, chunk)
                         ELSE {WOutcome(TRUE, f.buf \o chunk, f.sink)}
                    : f \in flushed }

\* BufWriter::flush: flush_buf, then the underlying writer's flush, which may
\* fail too
bufwriter_flush(buf, snk) ==
    UNION { IF ~f.ok THEN {f}
            ELSE {WOutcome(TRUE, f.buf, f.sink), WOutcome(FALSE, f.buf, f.sink)}
            : f \in flush_buf(buf, snk) }

\* BufWriter's Drop on an error return: one more flush_buf whose result is
\* ignored; the bytes the sink may end up with
drop_sinks(o) == { d.sink : d \in flush_buf(o.buf, o.sink) }

(***************************************************************************)
(* write_stl, statement by statement.                                      *)
(***************************************************************************)
\* a mutant of AttributeBytes: the attribute field written as four bytes
AttributeBytes4 == <<0, 0, 0, 0>>

\* line 194: the attribute byte count
AttributeBytes == u16_to_le_bytes(0)

\* line 182: u32::to_le_bytes(mesh.len() as u32); the four bytes taken by
\* u32_to_le_bytes are the low 32 bits of n, which is what `as u32` keeps
CountBytes(n) == u32_to_le_bytes(n)

\* one `writer.write(..)?` or `writer.write_all(..)?` of write_stl: on Ok go on
\* to the statement (pc, k, v, i); on Err return it (the BufWriter is dropped)
WriteStep(chunk, all, pc, k, v, i) ==
    \E o \in bufwriter_write(wcap, wbuf, sink, chunk, all) :
        IF o.ok
        THEN /\ wbuf' = o.buf
             /\ sink' = o.sink
             /\ sinkFlushed' = (sinkFlushed /\ o.sink = sink)
             /\ wpc' = pc /\ wk' = k /\ wv' = v /\ wi' = i
             /\ UNCHANGED <<sinkFailed, wres>>
        ELSE /\ wbuf' = <<>>
             /\ sink' \in drop_sinks(o)
             /\ sinkFlushed' = FALSE
             /\ sinkFailed' = TRUE
             /\ wres' = "err"
             /\ wpc' = "done"
             /\ UNCHANGED <<wk, wv, wi>>

\* line 181: writer.write_all(&[0u8; 80])?
WriteHeader ==
    /\ wpc = "header"
    /\ WriteStep(Zeros(80), TRUE, "count", wk, wv, wi)
    /\ UNCHANGED <<meshVars, mesh, wcap, sourceVars, decoderVars, probeVars>>

\* line 182: writer.write(&u32::to_le_bytes(mesh.len() as u32))?
WriteCount ==
    /\ wpc = "count"
    /\ WriteStep(CountBytes(Len(mesh)), FALSE,
                 IF Len(mesh) = 0 THEN "flush" ELSE "normal", 1, 1, 1)
    /\ UNCHANGED <<meshVars, mesh, wcap, sourceVars, decoderVars, probeVars>>

\* lines 185-187: one component of the normal
WriteNormal ==
    /\ wpc = "normal"
    /\ WriteStep(f32_to_le_bytes(mesh[wk].normal[wi]), FALSE,
                 IF wi = 3 THEN "vertex" ELSE "normal",
                 wk, 1, IF wi = 3 THEN 1 ELSE wi + 1)
    /\ UNCHANGED <<meshVars, mesh, wcap, sourceVars, decoderVars, probeVars>>

\* lines 188-192: one component of one vertex
WriteVertex ==
    /\ wpc = "vertex"
    /\ WriteStep(f32_to_le_bytes(mesh[wk].vertices[wv][wi]), FALSE,
                 IF wv = 3 /\ wi = 3 THEN "attr" ELSE "vertex",
                 wk,
                 IF wi = 3 /\ wv < 3 THEN wv + 1 ELSE wv,
                 IF wi = 3 THEN 1 ELSE wi + 1)
    /\ UNCHANGED <<meshVars, mesh, wcap, sourceVars, decoderVars, probeVars>>

\* line 194: writer.write(&u16::to_le_bytes(0))?, then the next triangle
WriteAttribute ==
    /\ wpc = "attr"
    /\ WriteStep(AttributeBytes, FALSE,
                 IF wk = Len(mesh) THEN "flush" ELSE "normal",
                 IF wk = Len(mesh) THEN wk ELSE wk + 1, 1, 1)
    /\ UNCHANGED <<meshVars, mesh, wcap, sourceVars, decoderVars, probeVars>>

\* line 196: writer.flush(), whose result is write_stl's
WriteFlush ==
    /\ wpc = "flush"
    /\ \E o \in bufwriter_flush(wbuf, sink) :
        /\ wbuf' = <<>>
        /\ sink' \in (IF o.ok THEN {o.sink} ELSE drop_sinks(o))
        /\ sinkFlushed' = o.ok
        /\ sinkFailed' = ~o.ok
        /\ wres' = IF o.ok THEN "ok" ELSE "err"
    /\ wpc' = "done"
    /\ UNCHANGED <<meshVars, mesh, wcap, wk, wv, wi, sourceVars, decoderVars, probeVars>>

write_stl ==
    \/ WriteHeader
    \/ WriteCount
    \/ WriteNormal
    \/ WriteVertex
    \/ WriteAttribute
    \/ WriteFlush

(***************************************************************************)
(* The byte source behind a BufReader.  The decoders only ever ask for 80  *)
(* bytes once and then for 4 bytes at a time, and DEFAULT_BUF_SIZE is a    *)
(* multiple of 4, so a read is short only where the source itself ends.    *)
(***************************************************************************)
\* Read::read into a zeroed n-byte buffer at offset pos: as many bytes as
\* are left, at most n; the rest of the buffer keeps its zeros.  At the end
\* of a faulty source it is an error, at the end of a sound one Ok(0)
source_read(pos, n) ==
    LET avail == Len(src) - pos
        k == Min(n, avail)
    IN IF avail = 0 /\ srcFault
       THEN [ok |-> FALSE, n |-> 0, buf |-> Zeros(n)]
       ELSE [ok |-> TRUE, n |-> k,
             buf |-> [i \in 1..n |-> IF i <= k THEN src[pos + i] ELSE 0]]

\* Read::read_exact of n bytes at offset pos
source_read_exact(pos, n) ==
    LET avail == Len(src) - pos
    IN IF avail >= n
       THEN [err |-> NoError, pos |-> pos + n]
       ELSE [err |-> IF srcFault THEN IoError
                     ELSE Error("UnexpectedEof", "failed to fill whole buffer"),
             pos |-> Len(src)]

\* where the source's own position is when a BufReader created on it at
\* offset start has handed out the bytes up to offset pos: the reader takes
\* DEFAULT_BUF_SIZE bytes from the source, or what is left of it, each time
\* its buffer is empty and more is asked for
source_position(start, pos) ==
    Min(Len(src),
        start + DEFAULT_BUF_SIZE * ((pos - start + DEFAULT_BUF_SIZE - 1) \div DEFAULT_BUF_SIZE))

(***************************************************************************)
(* BinaryStlReader.                                                        *)
(***************************************************************************)
\* lines 260-264 of create_triangle_iterator, reading from offset pos
binary_create(pos) ==
    LET hdr == source_read_exact(pos, 80)
        cnt == source_read(hdr.pos, 4)
    IN IF hdr.err # NoError
       THEN [err |-> hdr.err, size |-> 0, pos |-> hdr.pos]
       ELSE IF ~cnt.ok
            THEN [err |-> IoError, size |-> 0, pos |-> hdr.pos]
            ELSE [err |-> NoError,
                  size |-> u32_from_le_bytes(cnt.buf),
                  pos |-> hdr.pos + cnt.n]

\* n times `let mut f32_buf = [0; 4]; self.reader.read(&mut f32_buf)?;
\* f32::from_le_bytes(f32_buf)`, from offset pos
RECURSIVE read_f32s(_, _)
read_f32s(pos, n) ==
    IF n = 0
    THEN [err |-> NoError, vals |-> <<>>, pos |-> pos]
    ELSE LET r == source_read(pos, 4)
         IN IF ~r.ok
            THEN [err |-> IoError, vals |-> <<>>, pos |-> pos]
            ELSE LET rest == read_f32s(pos + r.n, n - 1)
                 IN [err |-> rest.err,
                     vals |-> <<f32_from_le_bytes(r.buf)>> \o rest.vals,
                     pos |-> rest.pos]

\* line 288: let mut u16_buf = [0; 4]
u16_buf_len == 4

\* BinaryStlReader::next_face from offset pos
binary_next_face(pos) ==
    LET fl == read_f32s(pos, 12)
        attr == source_read(fl.pos, u16_buf_len)
    IN IF fl.err # NoError
       THEN [kind |-> "Err", err |-> fl.err, pos |-> fl.pos]
       ELSE IF ~attr.ok
            THEN [kind |-> "Err", err |-> IoError, pos |-> fl.pos]
            ELSE [kind |-> "Tri",
                  tri |-> [normal |-> SubSeq(fl.vals, 1, 3),
                           vertices |-> << SubSeq(fl.vals, 4, 6),
                                           SubSeq(fl.vals, 7, 9),
                                           SubSeq(fl.vals, 10, 12) >>],
                  pos |-> fl.pos + attr.n]

\* a mutant of has_next: one item too many
has_next_inclusive(i, n) == i <= n

\* line 300: if self.index < self.size
has_next(i, n) == i < n

\* what a next() call returned
ItemTri(t) == [kind |-> "Tri", tri |-> t, err |-> NoError]
ItemErr(e) == [kind |-> "Err", tri |-> <<>>, err |-> e]
ItemNone == [kind |-> "None", tri |-> <<>>, err |-> NoError]

\* BinaryStlReader::next (lines 299-305); the bytes come through the
\* BufReader of line 259, which moves the source on when it runs empty
BinaryNext ==
    /\ dec = "binary"
    /\ via # "read_stl"
    /\ Len(out) < MaxNextCalls
    /\ IF has_next(index, size)
       THEN LET f == binary_next_face(dpos)
            IN /\ index' = index + 1
               /\ dpos' = f.pos
               /\ spos' = source_position(dstart, f.pos)
               /\ out' = Append(out, IF f.kind = "Tri" THEN ItemTri(f.tri)
                                     ELSE ItemErr(f.err))
       ELSE /\ out' = Append(out, ItemNone)
            /\ UNCHANGED <<index, dpos, spos>>
    /\ UNCHANGED <<meshVars, dec, createErr, size, dstart, ctor, via, pulled, src, srcFault,
                   seekFails, writerVars, probeVars>>

(***************************************************************************)
(* Text.  A string is the sequence of its bytes; a source may hold any     *)
(* bytes, and a line read from it is a string only when it is valid UTF-8. *)
(***************************************************************************)
Ascii ==
    ("\t" :> 9) @@ ("\n" :> 10) @@ ("\r" :> 13) @@ (" " :> 32) @@ ("-" :> 45)
    @@ ("0" :> 48) @@ ("1" :> 49) @@ ("2" :> 50) @@ ("3" :> 51) @@ ("4" :> 52)
    @@ ("5" :> 53) @@ ("6" :> 54) @@ ("7" :> 55) @@ ("8" :> 56) @@ ("9" :> 57)
    @@ ("N" :> 78) @@ ("S" :> 83)
    @@ ("a" :> 97) @@ ("c" :> 99) @@ ("d" :> 100) @@ ("e" :> 101) @@ ("f" :> 102)
    @@ ("i" :> 105) @@ ("l" :> 108) @@ ("m" :> 109) @@ ("n" :> 110) @@ ("o" :> 111)
    @@ ("p" :> 112) @@ ("r" :> 114) @@ ("s" :> 115) @@ ("t" :> 116) @@ ("v" :> 118)
    @@ ("u" :> 117) @@ ("x" :> 120) @@ ("y" :> 121)

\* the bytes of the text whose characters are the elements of t
Str(t) == [i \in 1..Len(t) |-> Ascii[t[i]]]

NL == 10
CR == 13

K_solid_sp == Str(<<"s", "o", "l", "i", "d", " ">>)
K_endsolid == Str(<<"e", "n", "d", "s", "o", "l", "i", "d">>)
K_facet == Str(<<"f", "a", "c", "e", "t">>)
K_normal == Str(<<"n", "o", "r", "m", "a", "l">>)
K_outer == Str(<<"o", "u", "t", "e", "r">>)
K_loop == Str(<<"l", "o", "o", "p">>)
K_vertex == Str(<<"v", "e", "r", "t", "e", "x">>)
K_endloop == Str(<<"e", "n", "d", "l", "o", "o", "p">>)
K_endfacet == Str(<<"e", "n", "d", "f", "a", "c", "e", "t">>)
K_nan == Str(<<"n", "a", "n">>)
K_inf == Str(<<"i", "n", "f">>)
K_infinity == Str(<<"i", "n", "f", "i", "n", "i", "t", "y">>)

\* str::starts_with
starts_with(s, prefix) ==
    Len(s) >= Len(prefix) /\ Prefix(s, Len(prefix)) = prefix

\* the number of bytes of the white-space character (Unicode White_Space, as
\* char::is_whitespace) that begins at index j of the UTF-8 text s, or 0
whitespace_len(s, j) ==
    LET n == Len(s) - j + 1
    IN IF n >= 1 /\ s[j] \in {9, 10, 11, 12, 13, 32} THEN 1
       ELSE IF n >= 2 /\ s[j] = 194 /\ s[j + 1] \in {133, 160} THEN 2
       ELSE IF n >= 3 /\ s[j] = 225 /\ s[j + 1] = 154 /\ s[j + 2] = 128 THEN 3
       ELSE IF n >= 3 /\ s[j] = 226 /\ s[j + 1] = 128
                      /\ s[j + 2] \in (128..138) \cup {168, 169, 175} THEN 3
       ELSE IF n >= 3 /\ s[j] = 226 /\ s[j + 1] = 129 /\ s[j + 2] = 159 THEN 3
       ELSE IF n >= 3 /\ s[j] = 227 /\ s[j + 1] = 128 /\ s[j + 2] = 128 THEN 3
       ELSE 0

\* the least element of a non-empty set of integers
Least(S) == CHOOSE j \in S : \A k \in S : j <= k

\* str::split_whitespace, collected: the maximal runs of non-whitespace
RECURSIVE split_whitespace(_)
split_whitespace(s) ==
    IF s = <<>> THEN <<>>
    ELSE IF whitespace_len(s, 1) > 0 THEN split_whitespace(Drop(s, whitespace_len(s, 1)))
    ELSE Bind({j \in 1..Len(s) : whitespace_len(s, j) > 0}, LAMBDA ends :
             IF ends = {} THEN <<s>>
             ELSE Bind(Least(ends), LAMBDA stop :
                       <<Prefix(s, stop - 1)>> \o split_whitespace(Drop(s, stop - 1))))

\* the number of bytes of the well-formed UTF-8 sequence that begins at index
\* j of s, or 0 when none does
utf8_char_len(s, j) ==
    LET n == Len(s) - j + 1
        b == s[j]
        cont(k) == s[j + k] \in 128..191
    IN IF b < 128 THEN 1
       ELSE IF b \in 194..223 THEN (IF n >= 2 /\ cont(1) THEN 2 ELSE 0)
       ELSE IF b \in 224..239
       THEN (IF /\ n >= 3
                /\ s[j + 1] \in (CASE b = 224 -> 160..191 [] b = 237 -> 128..159
                                   [] OTHER -> 128..191)
                /\ cont(2)
             THEN 3 ELSE 0)
       ELSE IF b \in 240..244
       THEN (IF /\ n >= 4
                /\ s[j + 1] \in (CASE b = 240 -> 144..191 [] b = 244 -> 128..143
                                   [] OTHER -> 128..191)
                /\ cont(2) /\ cont(3)
             THEN 4 ELSE 0)
       ELSE 0

\* str::from_utf8(s).is_ok(): every byte begins a well-formed sequence or
\* is a continuation byte inside the sequence that a byte before it begins
from_utf8_ok(s) ==
    \A j \in 1..Len(s) :
        IF s[j] \in 128..191
        THEN \E k \in 1..3 : j - k >= 1 /\ s[j - k] >= 192 /\ utf8_char_len(s, j - k) > k
        ELSE utf8_char_len(s, j) > 0

InvalidUtf8 == Error("InvalidData", "stream did not contain valid UTF-8")

\* the end of read_line: the bytes read become the line when they are valid
\* UTF-8; otherwise they are dropped and the call fails, the source staying
\* past them
line_or_invalid(bytes, pos) ==
    IF from_utf8_ok(bytes)
    THEN [ok |-> TRUE, err |-> NoError, line |-> bytes, pos |-> pos]
    ELSE [ok |-> FALSE, err |-> InvalidUtf8, line |-> <<>>, pos |-> pos]

\* BufRead::read_line at source offset pos: the bytes up to and including the
\* next newline, or up to the end of the source.  A faulty source fails where
\* a sound one reports its end
read_line(pos) ==
    Bind({j \in (pos + 1)..Len(src) : src[j] = NL}, LAMBDA nls :
        IF nls = {}
        THEN IF srcFault
             THEN [ok |-> FALSE, err |-> IoError, line |-> <<>>, pos |-> Len(src)]
             ELSE line_or_invalid(SubSeq(src, pos + 1, Len(src)), Len(src))
        ELSE Bind(Least(nls), LAMBDA stop :
                  line_or_invalid(SubSeq(src, pos + 1, stop), stop)))

\* what BufRead::lines takes off the end of a line: "\n" or "\r\n"
strip_newline(l) ==
    IF Len(l) > 0 /\ l[Len(l)] = NL
    THEN IF Len(l) > 1 /\ l[Len(l) - 1] = CR
         THEN Prefix(l, Len(l) - 2)
         ELSE Prefix(l, Len(l) - 1)
    ELSE l

\* Lines::next at source offset pos
raw_lines_next(pos) ==
    Bind(read_line(pos), LAMBDA r :
        IF ~r.ok THEN [kind |-> "Err", err |-> r.err, line |-> <<>>, pos |-> r.pos]
        ELSE IF r.line = <<>>
        THEN [kind |-> "None", err |-> NoError, line |-> <<>>, pos |-> r.pos]
        ELSE [kind |-> "Line", err |-> NoError, line |-> strip_newline(r.line),
              pos |-> r.pos])

(***************************************************************************)
(* str::parse::<f32>: an optional sign, then nan / inf / infinity in any   *)
(* case, or a decimal number (digits with an optional point, at least one  *)
(* digit, and an optional exponent), whose value is rounded to the nearest *)
(* f32, ties to even.  The value is digits * 10^e10, held exactly as a     *)
(* quotient of two naturals; a natural is the sequence of its base-10^4    *)
(* digits, least significant first, without leading zeros.                 *)
(***************************************************************************)
is_digit(b) == b >= 48 /\ b <= 57

to_ascii_lowercase(s) == [i \in 1..Len(s) |-> IF s[i] >= 65 /\ s[i] <= 90 THEN s[i] + 32 ELSE s[i]]

\* the powers of two from 2^0 to 2^30
Powers ==
    << 1, 2, 4, 8, 16, 32, 64, 128, 256, 512, 1024, 2048, 4096, 8192, 16384,
       32768, 65536, 131072, 262144, 524288, 1048576, 2097152, 4194304,
       8388608, 16777216, 33554432, 67108864, 134217728, 268435456,
       536870912, 1073741824 >>

pow2(n) == Powers[n + 1]

\* the greatest element of a non-empty set of integers
Greatest(S) == CHOOSE j \in S : \A k \in S : j >= k

\* the base-10^4 digits of c < 2^31
limbs_of(c) ==
    IF c = 0 THEN <<>>
    ELSE IF c < 10000 THEN <<c>>
    ELSE IF c < 100000000 THEN <<c % 10000, c \div 10000>>
    ELSE <<c % 10000, (c \div 10000) % 10000, c \div 100000000>>

\* the digits lo..hi of a, times k, plus the carry c that comes into them:
\* as many digits, and the carry that goes out
RECURSIVE scale_limbs(_, _, _, _, _)
scale_limbs(a, lo, hi, k, c) ==
    IF lo = hi
    THEN [limbs |-> <<(a[lo] * k + c) % 10000>>, carry |-> (a[lo] * k + c) \div 10000]
    ELSE Bind(scale_limbs(a, lo, (lo + hi) \div 2, k, c), LAMBDA low :
         Bind(scale_limbs(a, (lo + hi) \div 2 + 1, hi, k, low.carry), LAMBDA high :
              [limbs |-> low.limbs \o high.limbs, carry |-> high.carry]))

\* a * k + c for a natural a, 0 < k <= 2^17 and 0 <= c < k
big_scale(a, k, c) ==
    IF a = <<>> THEN limbs_of(c)
    ELSE Bind(a, LAMBDA limbs :
         Bind(scale_limbs(limbs, 1, Len(limbs), k, c), LAMBDA r :
              r.limbs \o limbs_of(r.carry)))

\* a * k for a natural a and 0 <= k <= 2^17
big_times(a, k) == IF k = 0 THEN <<>> ELSE big_scale(a, k, 0)

\* a < b
big_lt(a, b) ==
    IF Len(a) # Len(b) THEN Len(a) < Len(b)
    ELSE \E i \in 1..Len(a) : a[i] < b[i] /\ \A j \in (i + 1)..Len(a) : a[j] = b[j]

\* a - b for a >= b: the digit at i borrows when the lower digits of a spell
\* less than those of b
big_sub(a, b) ==
    LET bd(i) == IF i <= Len(b) THEN b[i] ELSE 0
        borrow(i) == \E j \in 1..(i - 1) :
                        a[j] < bd(j) /\ \A l \in (j + 1)..(i - 1) : a[l] = bd(l)
        raw == [i \in 1..Len(a) |->
                  (a[i] - bd(i) - (IF borrow(i) THEN 1 ELSE 0) + 10000) % 10000]
        used == {i \in 1..Len(a) : raw[i] # 0}
    IN IF used = {} THEN <<>> ELSE Prefix(raw, Greatest(used))

\* the natural that the decimal digits ds (no leading zero) spell
big_from_digits(ds) ==
    LET digit(j) == IF j >= 1 THEN ds[j] - 48 ELSE 0
        last(i) == Len(ds) - 4 * (i - 1)
    IN [i \in 1..((Len(ds) + 3) \div 4) |->
          1000 * digit(last(i) - 3) + 100 * digit(last(i) - 2)
          + 10 * digit(last(i) - 1) + digit(last(i))]

\* a * 10^k for a natural a > 0
big_mul_pow10(a, k) ==
    big_scale(Zeros(k \div 4) \o a,
              CASE k % 4 = 0 -> 1 [] k % 4 = 1 -> 10 [] k % 4 = 2 -> 100 [] OTHER -> 1000,
              0)

\* the quotient st.n / st.d times 2^st.p, rewritten with 1 <= n / d < 2: a
\* step moves the quotient by the most binary places, of 16, 8, 4, 2 and 1,
\* that keep it on its side of that range
normalize_step(st) ==
    IF big_lt(st.n, st.d)
    THEN Bind({s \in {1, 2, 4, 8, 16} : ~big_lt(st.d, big_times(st.n, pow2(s)))},
              LAMBDA fits :
              Bind(IF fits = {} THEN 1 ELSE Greatest(fits), LAMBDA s :
                   [n |-> big_times(st.n, pow2(s)), d |-> st.d, p |-> st.p - s]))
    ELSE Bind({s \in {1, 2, 4, 8, 16} : ~big_lt(st.n, big_times(st.d, pow2(s)))},
              LAMBDA fits :
              IF fits = {} THEN st
              ELSE Bind(Greatest(fits), LAMBDA s :
                        [n |-> st.n, d |-> big_times(st.d, pow2(s)), p |-> st.p + s]))

RECURSIVE normalize(_)
normalize(st) ==
    Bind(normalize_step(st), LAMBDA t : IF t = st THEN st ELSE normalize(t))

\* the integer part of m / d, which is below 16
quotient_digit(m, d) ==
    IF Len(m) <= 2 /\ Len(d) <= 2
    THEN LET int(a) == (IF Len(a) >= 1 THEN a[1] ELSE 0)
                       + 10000 * (IF Len(a) >= 2 THEN a[2] ELSE 0)
         IN int(m) \div int(d)
    ELSE CHOOSE g \in 0..15 : ~big_lt(m, big_times(d, g)) /\ big_lt(m, big_times(d, g + 1))

\* up to four more binary digits of st.n / st.d (below 1) moved into st.q
take_bits_step(st) ==
    Bind(Min(4, st.k), LAMBDA c :
    Bind(big_times(st.n, pow2(c)), LAMBDA m :
    Bind(quotient_digit(m, st.d), LAMBDA g :
         [n |-> big_sub(m, big_times(st.d, g)), d |-> st.d,
          q |-> st.q * pow2(c) + g, k |-> st.k - c])))

\* st.k more binary digits of st.n / st.d (below 1) moved into st.q
RECURSIVE take_bits(_)
take_bits(st) ==
    IF st.k = 0 THEN st ELSE Bind(take_bits_step(st), LAMBDA t : take_bits(t))

f32_zero(s) == [s |-> s, e |-> 0, m |-> 0]
f32_infinity(s) == [s |-> s, e |-> 255, m |-> 0]

\* the f32 nearest to n / d (n, d > 0) with sign bit s, ties to even:
\* subnormal below 2^-126, infinite from 2^128 on
ratio_to_f32(s, n, d) ==
    Bind(normalize([n |-> n, d |-> d, p |-> 0]), LAMBDA v :
        IF v.p > 127 THEN f32_infinity(s)
        ELSE IF v.p < -150 THEN f32_zero(s)
        ELSE Bind(take_bits([n |-> v.n, d |-> big_times(v.d, 2), q |-> 0,
                             k |-> IF v.p >= -126 THEN 24 ELSE v.p + 150]), LAMBDA r :
             Bind(big_times(r.n, 2), LAMBDA twice :
             Bind(IF big_lt(r.d, twice) \/ (twice = r.d /\ r.q % 2 = 1)
                  THEN r.q + 1 ELSE r.q, LAMBDA q :
             Bind((IF v.p >= -126 THEN v.p + 126 ELSE 0) + q \div 8388608, LAMBDA e :
                  IF e >= 255 THEN f32_infinity(s)
                  ELSE [s |-> s, e |-> e, m |-> q % 8388608])))))

\* the longest prefix of s made of decimal digits
digits_prefix(s) ==
    Prefix(s, Least({j \in 0..Len(s) : j = Len(s) \/ ~is_digit(s[j + 1])}))

\* ds without its leading zeros
strip_leading_zeros(ds) ==
    Drop(ds, Least({j \in 0..Len(ds) : j = Len(ds) \/ ds[j + 1] # 48}))

\* the exponent the decimal digits ds spell, as str::parse reads it: digit by
\* digit, a digit being taken in (10 * exponent + digit) only while the
\* exponent read so far is below 2^16, so that the result stays below 655360
exponent_value(ds) ==
    LET sig == strip_leading_zeros(ds)
        digit(j) == IF j >= 1 /\ j <= Len(sig) THEN sig[j] - 48 ELSE 0
        first(n) == 10000 * digit(n - 4) + 1000 * digit(n - 3) + 100 * digit(n - 2)
                    + 10 * digit(n - 1) + digit(n)
    IN IF Len(sig) <= 5 THEN first(Len(sig))
       ELSE IF first(5) >= 65536 THEN first(5)
       ELSE 10 * first(5) + digit(6)

\* the exponent part x of a number (empty, or e / E, an optional sign and at
\* least one digit)
parse_exponent(x) ==
    IF x = <<>> THEN [ok |-> TRUE, val |-> 0]
    ELSE IF x[1] \notin {69, 101} THEN [ok |-> FALSE, val |-> 0]
    ELSE LET signed == Len(x) > 1 /\ x[2] \in {43, 45}
             ds == IF signed THEN Drop(x, 2) ELSE Tail(x)
         IN IF ds = <<>> \/ \E i \in 1..Len(ds) : ~is_digit(ds[i])
            THEN [ok |-> FALSE, val |-> 0]
            ELSE [ok |-> TRUE,
                  val |-> (IF signed /\ x[2] = 45 THEN -1 ELSE 1) * exponent_value(ds)]

\* the significant digits str::parse keeps of a number
MAX_DIGITS == 768

\* the number sig * 10^e10 with at most MAX_DIGITS + 1 digits: the digits
\* after the first MAX_DIGITS are dropped, and a 1 stands in their place when
\* one of them is not 0; no f32 and no midpoint of two f32s lies between
\* the number and the one kept, so both round to the same f32
truncate_digits(sig, e10) ==
    IF Len(sig) <= MAX_DIGITS THEN [digits |-> sig, e10 |-> e10]
    ELSE [digits |-> Prefix(sig, MAX_DIGITS)
                     \o (IF \E i \in (MAX_DIGITS + 1)..Len(sig) : sig[i] # 48
                         THEN <<49>> ELSE <<48>>),
          e10 |-> e10 + Len(sig) - MAX_DIGITS - 1]

\* the f32 that is the natural the at most seven digits sig spell: it is
\* below 2^24, and so an f32
small_to_f32(s, sig) ==
    LET limbs == big_from_digits(sig)
        n == limbs[1] + (IF Len(limbs) > 1 THEN 10000 * limbs[2] ELSE 0)
        k == CHOOSE j \in 1..24 : pow2(j - 1) <= n /\ n < pow2(j)
    IN [s |-> s, e |-> 126 + k, m |-> n * pow2(24 - k) - 8388608]

\* the f32 nearest to digits * 10^e10 with sign bit s
decimal_to_f32(s, digits, e10) ==
    Bind(strip_leading_zeros(digits), LAMBDA sig :
        IF sig = <<>> THEN f32_zero(s)
        ELSE IF e10 = 0 /\ Len(sig) <= 7 THEN small_to_f32(s, sig)
        ELSE IF Len(sig) + e10 > 39 THEN f32_infinity(s)
        ELSE IF Len(sig) + e10 < -45 THEN f32_zero(s)
        ELSE Bind(truncate_digits(sig, e10), LAMBDA t :
             IF t.e10 >= 0
             THEN ratio_to_f32(s, big_mul_pow10(big_from_digits(t.digits), t.e10), <<1>>)
             ELSE ratio_to_f32(s, big_from_digits(t.digits), big_mul_pow10(<<1>>, -t.e10))))

\* the unsigned decimal number body
parse_number(s, body) ==
    Bind(digits_prefix(body), LAMBDA int :
    Bind(Drop(body, Len(int)), LAMBDA rest :
    Bind(IF rest # <<>> /\ rest[1] = 46 THEN digits_prefix(Tail(rest)) ELSE <<>>, LAMBDA frac :
    Bind(parse_exponent(IF rest # <<>> /\ rest[1] = 46
                        THEN Drop(rest, 1 + Len(frac)) ELSE rest), LAMBDA ex :
         IF int \o frac = <<>> \/ ~ex.ok THEN [ok |-> FALSE, val |-> f32_zero(0)]
         ELSE [ok |-> TRUE, val |-> decimal_to_f32(s, int \o frac, ex.val - Len(frac))]))))

parse_f32(tok) ==
    LET signed == Len(tok) > 0 /\ tok[1] \in {43, 45}
        s == IF Len(tok) > 0 /\ tok[1] = 45 THEN 1 ELSE 0
        body == IF signed THEN Tail(tok) ELSE tok
    IN Bind(to_ascii_lowercase(body), LAMBDA low :
        IF low = <<>> THEN [ok |-> FALSE, val |-> f32_zero(0)]
        ELSE IF low = K_nan THEN [ok |-> TRUE, val |-> [s |-> s, e |-> 255, m |-> 4194304]]
        ELSE IF low \in {K_inf, K_infinity} THEN [ok |-> TRUE, val |-> f32_infinity(s)]
        ELSE parse_number(s, body))

\* a mutant of is_finite: every float passes
is_finite_always(f) == TRUE

\* f32::is_finite
is_finite(f) == f.e < 255

InvalidData(msg) == Error("InvalidData", msg)
UnexpectedEof(msg) == Error("UnexpectedEof", msg)

\* AsciiStlReader::tokens_to_f32 (lines 482-497)
RECURSIVE tokens_to_f32(_)
tokens_to_f32(tokens) ==
    IF tokens = <<>> THEN [err |-> NoError, vals |-> <<>>]
    ELSE Bind(parse_f32(tokens[1]), LAMBDA p :
        IF ~p.ok
        THEN [err |-> InvalidData("invalid float literal"), vals |-> <<>>]
        ELSE IF ~is_finite(p.val)
        THEN [err |-> InvalidData("expected finite f32"), vals |-> <<>>]
        ELSE Bind(tokens_to_f32(Tail(tokens)), LAMBDA rest :
                  [err |-> rest.err,
                   vals |-> IF rest.err = NoError THEN <<p.val>> \o rest.vals ELSE <<>>]))

(***************************************************************************)
(* AsciiStlReader.                                                         *)
(***************************************************************************)
\* a mutant of line_starts_with_solid: the trailing space is not required
line_starts_with_solid_nospace(line) == starts_with(line, Prefix(K_solid_sp, 5))

\* line 405: line.starts_with("solid ")
line_starts_with_solid(line) == starts_with(line, K_solid_sp)

\* a mutant of keep_line: blank lines are not filtered out
keep_every_line(tokens) == TRUE

\* line 429: the filter over tokenised lines
keep_line(tokens) == tokens # <<>>

\* lines 402-418 of create_triangle_iterator, reading from offset pos
ascii_create(pos) ==
    Bind(raw_lines_next(pos), LAMBDA first :
        CASE first.kind = "Err" -> [err |-> first.err, pos |-> first.pos]
          [] first.kind = "None" -> [err |-> UnexpectedEof("empty file?"), pos |-> first.pos]
          [] OTHER ->
               IF ~line_starts_with_solid(first.line)
               THEN [err |-> InvalidData("ascii STL does not start with \"solid \""),
                     pos |-> first.pos]
               ELSE [err |-> NoError, pos |-> first.pos])

\* self.lines.next() (lines 419-429): the next line, tokenised, that the
\* filter keeps; an error is kept too
RECURSIVE lines_next(_)
lines_next(pos) ==
    Bind(raw_lines_next(pos), LAMBDA r :
        IF r.kind = "Err"
        THEN [kind |-> "Err", err |-> r.err, tokens |-> <<>>, pos |-> r.pos]
        ELSE IF r.kind = "None"
        THEN [kind |-> "None", err |-> NoError, tokens |-> <<>>, pos |-> r.pos]
        ELSE Bind(split_whitespace(r.line), LAMBDA tokens :
                  IF keep_line(tokens)
                  THEN [kind |-> "Line", err |-> NoError, tokens |-> tokens, pos |-> r.pos]
                  ELSE lines_next(r.pos)))

\* the lines iterator inside one next_face call: its offset, the token lines
\* it has handed out, and whether it reported its end
Cursor(pos) == [pos |-> pos, lines |-> <<>>, dry |-> FALSE]

\* self.lines.next() on cursor c: the item and the cursor afterwards
Pull(c) ==
    Bind(lines_next(c.pos), LAMBDA r :
        [item |-> r,
         c |-> [pos |-> r.pos,
                lines |-> IF r.kind = "Line" THEN Append(c.lines, r.tokens) ELSE c.lines,
                dry |-> c.dry \/ r.kind = "None"]])

\* AsciiStlReader::expect_static (lines 498-514)
expect_static(c, expectation) ==
    Bind(Pull(c), LAMBDA p :
        CASE p.item.kind = "None" -> [err |-> UnexpectedEof("EOF while expecting"), c |-> p.c]
          [] p.item.kind = "Err" -> [err |-> p.item.err, c |-> p.c]
          [] OTHER -> [err |-> IF p.item.tokens # expectation
                               THEN InvalidData("expected, got")
                               ELSE NoError,
                       c |-> p.c])

\* line 445
is_endsolid(tokens) == tokens # <<>> /\ tokens[1] = K_endsolid

\* line 448
bad_facet_header(tokens) ==
    Len(tokens) # 5 \/ tokens[1] # K_facet \/ tokens[2] # K_normal

\* line 461
bad_vertex_line(tokens) == Len(tokens) # 4 \/ tokens[1] # K_vertex

\* one round of the loop of lines 458-474
read_vertex(c) ==
    Bind(Pull(c), LAMBDA p :
        CASE p.item.kind = "None" ->
               [err |-> UnexpectedEof("EOF while expecting vertex"), val |-> <<>>, c |-> p.c]
          [] p.item.kind = "Err" -> [err |-> p.item.err, val |-> <<>>, c |-> p.c]
          [] OTHER ->
               IF bad_vertex_line(p.item.tokens)
               THEN [err |-> InvalidData("vertex f32 f32 f32, got"), val |-> <<>>, c |-> p.c]
               ELSE Bind(tokens_to_f32(SubSeq(p.item.tokens, 2, 4)), LAMBDA v :
                         [err |-> v.err, val |-> v.vals, c |-> p.c]))

\* the loop of lines 458-474, n rounds
RECURSIVE read_vertices(_, _)
read_vertices(c, n) ==
    IF n = 0 THEN [err |-> NoError, vals |-> <<>>, c |-> c]
    ELSE Bind(read_vertex(c), LAMBDA v :
        IF v.err # NoError THEN [err |-> v.err, vals |-> <<>>, c |-> v.c]
        ELSE Bind(read_vertices(v.c, n - 1), LAMBDA rest :
                  [err |-> rest.err, vals |-> <<v.val>> \o rest.vals, c |-> rest.c]))

FaceErr(e, c) == [kind |-> "Err", err |-> e, tri |-> <<>>, c |-> c]

\* lines 456-480 of next_face: the rest of a facet whose header gave normal
ascii_facet_body(normal, c) ==
    Bind(expect_static(c, <<K_outer, K_loop>>), LAMBDA ol :
    IF ol.err # NoError THEN FaceErr(ol.err, ol.c)
    ELSE Bind(read_vertices(ol.c, 3), LAMBDA vs :
    IF vs.err # NoError THEN FaceErr(vs.err, vs.c)
    ELSE Bind(expect_static(vs.c, <<K_endloop>>), LAMBDA el :
    IF el.err # NoError THEN FaceErr(el.err, el.c)
    ELSE Bind(expect_static(el.c, <<K_endfacet>>), LAMBDA ef :
    IF ef.err # NoError THEN FaceErr(ef.err, ef.c)
    ELSE [kind |-> "Tri", err |-> NoError,
          tri |-> [normal |-> normal, vertices |-> vs.vals],
          c |-> ef.c]))))

\* AsciiStlReader::next_face (lines 436-481) with the lines iterator at pos
ascii_next_face(pos) ==
    Bind(Pull(Cursor(pos)), LAMBDA h :
        CASE h.item.kind = "None" ->
               FaceErr(UnexpectedEof("EOF while expecting facet or endsolid."), h.c)
          [] h.item.kind = "Err" -> FaceErr(h.item.err, h.c)
          [] OTHER ->
               IF is_endsolid(h.item.tokens)
               THEN [kind |-> "None", err |-> NoError, tri |-> <<>>, c |-> h.c]
               ELSE IF bad_facet_header(h.item.tokens)
               THEN FaceErr(InvalidData("invalid facet header"), h.c)
               ELSE Bind(tokens_to_f32(SubSeq(h.item.tokens, 3, 5)), LAMBDA nrm :
                         IF nrm.err # NoError THEN FaceErr(nrm.err, h.c)
                         ELSE ascii_facet_body(nrm.vals, h.c)))

(***************************************************************************)
(* AsciiStlReader::probe and create_stl_reader.                            *)
(***************************************************************************)
SeekError == Error("Other", "seek failure")

\* a mutant of header_starts_with_solid: the case of the letters is ignored
header_starts_with_solid_anycase(header) ==
    starts_with(to_ascii_lowercase(header), K_solid_sp)

\* line 389: header.starts_with("solid ")
header_starts_with_solid(header) == starts_with(header, K_solid_sp)

\* a mutant of probe: the read error is returned before the seek
probe_read_error_first(pos) ==
    Bind(read_line(pos), LAMBDA r :
        IF ~r.ok THEN [err |-> r.err, spos |-> source_position(pos, r.pos)]
        ELSE IF seekFails THEN [err |-> SeekError, spos |-> source_position(pos, r.pos)]
        ELSE IF ~header_starts_with_solid(r.line)
             THEN [err |-> InvalidData("ascii STL does not start with \"solid \""), spos |-> 0]
             ELSE [err |-> NoError, spos |-> 0])

\* AsciiStlReader::probe (lines 383-397) on a source positioned at pos: its
\* result and the source's position afterwards.  The BufReader of line 385
\* reads on until it has the whole line; a failed seek leaves the source
\* where that reading left it
probe(pos) ==
    Bind(read_line(pos), LAMBDA r :
        IF seekFails THEN [err |-> SeekError, spos |-> source_position(pos, r.pos)]
        ELSE IF ~r.ok THEN [err |-> r.err, spos |-> 0]
        ELSE IF ~header_starts_with_solid(r.line)
             THEN [err |-> InvalidData("ascii STL does not start with \"solid \""), spos |-> 0]
             ELSE [err |-> NoError, spos |-> 0])

\* a constructor's effect on the decoder's state and, through the BufReader
\* it reads with, on the source's position
Constructed(which, how, c, start, sz) ==
    /\ ctor' = which
    /\ via' = how
    /\ dec' = IF c.err = NoError THEN which ELSE "failed"
    /\ createErr' = c.err
    /\ index' = 0
    /\ size' = sz
    /\ dstart' = start
    /\ dpos' = c.pos
    /\ spos' = source_position(start, c.pos)
    /\ UNCHANGED <<out, pulled>>

\* BinaryStlReader::create_triangle_iterator called on the source as it stands
BinaryCreate ==
    /\ dec = "none"
    /\ Constructed("binary", "direct", binary_create(spos), spos, binary_create(spos).size)
    /\ UNCHANGED <<meshVars, src, srcFault, seekFails, writerVars, probeVars>>

\* AsciiStlReader::probe called on the source as it stands
Probe ==
    /\ dec = "none"
    /\ ~probeDone
    /\ LET p == probe(spos)
       IN /\ probeDone' = TRUE
          /\ probeStart' = spos
          /\ probeErr' = p.err
          /\ spos' = p.spos
    /\ UNCHANGED <<meshVars, src, srcFault, seekFails, decoderVars, writerVars>>

\* AsciiStlReader::create_triangle_iterator called on the source as it stands
AsciiCreate ==
    /\ dec = "none"
    /\ Constructed("ascii", "direct", ascii_create(spos), spos, 0)
    /\ UNCHANGED <<meshVars, src, srcFault, seekFails, writerVars, probeVars>>

\* create_stl_reader (lines 236-246): the probe, then the constructor its
\* result selects
CreateStlReader ==
    /\ dec = "none"
    /\ ~probeDone
    /\ LET p == probe(spos)
       IN /\ probeDone' = TRUE
          /\ probeStart' = spos
          /\ probeErr' = p.err
          /\ IF p.err = NoError
             THEN Constructed("ascii", "create_stl_reader", ascii_create(p.spos), p.spos, 0)
             ELSE Constructed("binary", "create_stl_reader", binary_create(p.spos), p.spos,
                              binary_create(p.spos).size)
    /\ UNCHANGED <<meshVars, src, srcFault, seekFails, writerVars>>

\* AsciiStlReader::next (lines 372-378); the lines come through the
\* BufReader of line 402, which moves the source on when it runs empty
AsciiNext ==
    /\ dec = "ascii"
    /\ via # "read_stl"
    /\ Len(out) < MaxNextCalls
    /\ \E f \in {ascii_next_face(dpos)} :
          /\ dpos' = f.c.pos
          /\ spos' = source_position(dstart, f.c.pos)
          /\ out' = Append(out, CASE f.kind = "None" -> ItemNone
                                  [] f.kind = "Tri" -> ItemTri(f.tri)
                                  [] OTHER -> ItemErr(f.err))
          /\ pulled' = Append(pulled, [lines |-> f.c.lines, dry |-> f.c.dry])
    /\ UNCHANGED <<meshVars, dec, createErr, index, size, dstart, ctor, via, src, srcFault,
                   seekFails, writerVars, probeVars>>

(***************************************************************************)
(* read_stl (lines 214-219): create_stl_reader, then as_indexed_triangles  *)
(* on the decoder it returned.                                             *)
(***************************************************************************)
\* a mutant of bitpattern: the key of a vertex forgets the sign of a zero, as
\* a key built on float equality would
bitpattern_float_eq(vertex) ==
    [i \in 1..3 |-> f32_to_le_bytes(IF vertex[i].e = 0 /\ vertex[i].m = 0
                                    THEN [vertex[i] EXCEPT !.s = 0]
                                    ELSE vertex[i])]

\* line 339: transmute::<[f32; 3], [u32; 3]>(vertex.0); a u32 is held as its
\* four bytes
bitpattern(vertex) == [i \in 1..3 |-> f32_to_le_bytes(vertex[i])]

\* a mutant of next_index: the index after the next free one
next_index_off_by_one(vs) == Len(vs) + 1

\* line 342: || vertices.len()
next_index(vs) == Len(vs)

\* lines 340-342: *map.entry(key).or_insert_with(|| vertices.len()): the map
\* afterwards and the index
entry_or_insert(map, key, vs) ==
    IF key \in DOMAIN map
    THEN [map |-> map, index |-> map[key]]
    ELSE [map |-> [k \in DOMAIN map \cup {key} |->
                       IF k = key THEN next_index(vs) ELSE map[k]],
          index |-> next_index(vs)]

\* a mutant of question_mark: an error ends the loop and what was built so
\* far is returned
question_mark_keeps_partial(e, vs, ts) ==
    [kind |-> "Ok", err |-> NoError, mesh |-> [vertices |-> vs, faces |-> ts]]

\* line 336: `let t = t?;` on Err(e), with vertices and triangles as they
\* are: the function returns Err(e) and its locals are dropped
question_mark(e, vs, ts) ==
    [kind |-> "Err", err |-> e, mesh |-> [vertices |-> <<>>, faces |-> <<>>]]

\* lines 353-358
ok_mesh(vs, ts) ==
    [kind |-> "Ok", err |-> NoError, mesh |-> [vertices |-> vs, faces |-> ts]]

\* create_stl_reader (lines 236-246) on a source positioned at pos: what the
\* probe returned, the constructor that ran, the offset it started to read
\* at and what it returned
create_stl_reader(pos) ==
    Bind(probe(pos), LAMBDA p :
        IF p.err = NoError
        THEN Bind(ascii_create(p.spos), LAMBDA c :
                  [probe |-> p, which |-> "ascii", start |-> p.spos, err |-> c.err,
                   size |-> 0, pos |-> c.pos])
        ELSE Bind(binary_create(p.spos), LAMBDA c :
                  [probe |-> p, which |-> "binary", start |-> p.spos, err |-> c.err,
                   size |-> c.size, pos |-> c.pos]))

\* what one next() call of a decoder did: the item it returned, the offset
\* the decoder has consumed up to, and the token lines an ASCII call took
Call(item, pos, lines, dry) == [item |-> item, pos |-> pos, lines |-> lines, dry |-> dry]

\* the calls of BinaryStlReader::next (lines 299-305) a for loop makes, from
\* index idx and offset pos: it stops at None and, by `?`, at an error; at
\* most n calls are followed
RECURSIVE binary_calls(_, _, _, _)
binary_calls(idx, sz, pos, n) ==
    IF n = 0 THEN <<>>
    ELSE IF ~has_next(idx, sz) THEN <<Call(ItemNone, pos, <<>>, FALSE)>>
    ELSE Bind(binary_next_face(pos), LAMBDA f :
         IF f.kind = "Tri"
         THEN <<Call(ItemTri(f.tri), f.pos, <<>>, FALSE)>>
              \o binary_calls(idx + 1, sz, f.pos, n - 1)
         ELSE <<Call(ItemErr(f.err), f.pos, <<>>, FALSE)>>)

\* the calls of AsciiStlReader::next (lines 372-378) a for loop makes, from
\* offset pos; at most n calls are followed
RECURSIVE ascii_calls(_, _)
ascii_calls(pos, n) ==
    IF n = 0 THEN <<>>
    ELSE Bind(ascii_next_face(pos), LAMBDA f :
         CASE f.kind = "Tri" ->
                <<Call(ItemTri(f.tri), f.c.pos, f.c.lines, f.c.dry)>>
                \o ascii_calls(f.c.pos, n - 1)
           [] f.kind = "None" -> <<Call(ItemNone, f.c.pos, f.c.lines, f.c.dry)>>
           [] OTHER -> <<Call(ItemErr(f.err), f.c.pos, f.c.lines, f.c.dry)>>)

\* the for loop of line 335 came to its end within the calls followed
loop_ended(calls) == calls # <<>> /\ calls[Len(calls)].item.kind # "Tri"

\* lines 329-334: the locals of as_indexed_triangles
indexer_locals ==
    [vertices |-> <<>>, triangles |-> <<>>, vertex_to_index |-> <<>>,
     vertex_indices |-> <<0, 0, 0>>, cur |-> <<>>, corner |-> 1]

\* lines 337-347: the inner loop's round for corner i of triangle t
index_vertex(st, t, i) ==
    Bind(entry_or_insert(st.vertex_to_index, bitpattern(t.vertices[i]), st.vertices),
         LAMBDA r :
         [st EXCEPT !.vertex_to_index = r.map,
                    !.vertices = IF r.index = Len(st.vertices)
                                 THEN Append(st.vertices, t.vertices[i])
                                 ELSE st.vertices,
                    !.vertex_indices = [st.vertex_indices EXCEPT ![i] = r.index],
                    !.cur = t,
                    !.corner = i])

\* lines 337-351: the for loop's body on triangle t
index_triangle(st, t) ==
    Bind(index_vertex(st, t, 1), LAMBDA s1 :
    Bind(index_vertex(s1, t, 2), LAMBDA s2 :
    Bind(index_vertex(s2, t, 3), LAMBDA s3 :
         [s3 EXCEPT !.triangles = Append(s3.triangles,
                                         [normal |-> t.normal,
                                          vertices |-> s3.vertex_indices])])))

\* lines 335-358 from the k-th item of a stream that ends with None or an
\* error: the locals at the return and what is returned
RECURSIVE index_items(_, _, _)
index_items(st, items, k) ==
    Bind(st, LAMBDA s :
        CASE items[k].kind = "None" ->
               [locals |-> s, asked |-> k, res |-> ok_mesh(s.vertices, s.triangles)]
          [] items[k].kind = "Err" ->
               [locals |-> s, asked |-> k,
                res |-> question_mark(items[k].err, s.vertices, s.triangles)]
          [] OTHER -> index_items(index_triangle(s, items[k].tri), items, k + 1))

\* line 218: `create_stl_reader(read)?` on Err(e)
create_failed(e) ==
    [kind |-> "Err", err |-> e, mesh |-> [vertices |-> <<>>, faces |-> <<>>]]

\* read_stl on a source positioned at pos, the decoder's calls followed up
\* to n
read_stl(pos, n) ==
    Bind(create_stl_reader(pos), LAMBDA c :
        IF c.err # NoError THEN [reader |-> c, calls |-> <<>>]
        ELSE [reader |-> c,
              calls |-> IF c.which = "ascii" THEN ascii_calls(c.pos, n)
                        ELSE binary_calls(0, c.size, c.pos, n)])

\* read_stl called on the source as it stands.  The decoder is a temporary
\* of line 218: the caller never holds it, and next() is not called on it
\* after read_stl has returned.  A source whose decoding takes more than
\* MaxNextCalls calls is left aside
ReadStl ==
    /\ dec = "none"
    /\ ~probeDone
    /\ \E r \in {read_stl(spos, MaxNextCalls)} :
          /\ r.reader.err = NoError => loop_ended(r.calls)
          /\ probeDone' = TRUE
          /\ probeStart' = spos
          /\ probeErr' = r.reader.probe.err
          /\ ctor' = r.reader.which
          /\ via' = "read_stl"
          /\ createErr' = r.reader.err
          /\ size' = r.reader.size
          /\ dstart' = r.reader.start
          /\ IF r.reader.err # NoError
             THEN /\ dec' = "failed"
                  /\ index' = 0
                  /\ dpos' = r.reader.pos
                  /\ spos' = source_position(r.reader.start, r.reader.pos)
                  /\ ires' = create_failed(r.reader.err)
                  /\ UNCHANGED <<out, pulled, stream, asked, ipc, cur, corner, vertices,
                                 triangles, vertex_to_index, vertex_indices>>
             ELSE /\ dec' = r.reader.which
                  /\ index' = IF r.reader.which = "binary"
                              THEN Cardinality({k \in 1..Len(r.calls) :
                                                   r.calls[k].item.kind # "None"})
                              ELSE 0
                  /\ dpos' = r.calls[Len(r.calls)].pos
                  /\ spos' = source_position(r.reader.start, r.calls[Len(r.calls)].pos)
                  /\ out' = [k \in 1..Len(r.calls) |-> r.calls[k].item]
                  /\ pulled' = IF r.reader.which = "ascii"
                               THEN [k \in 1..Len(r.calls) |->
                                        [lines |-> r.calls[k].lines, dry |-> r.calls[k].dry]]
                               ELSE <<>>
                  /\ \E x \in {index_items(indexer_locals,
                                            [k \in 1..Len(r.calls) |-> r.calls[k].item], 1)} :
                        /\ stream' = SelectSeq([k \in 1..Len(r.calls) |-> r.calls[k].item],
                                               LAMBDA it : it.kind # "None")
                        /\ asked' = x.asked
                        /\ ipc' = "done"
                        /\ cur' = x.locals.cur
                        /\ corner' = x.locals.corner
                        /\ vertices' = x.locals.vertices
                        /\ triangles' = x.locals.triangles
                        /\ vertex_to_index' = x.locals.vertex_to_index
                        /\ vertex_indices' = x.locals.vertex_indices
                        /\ ires' = x.res
    /\ UNCHANGED <<src, srcFault, seekFails, writerVars, validateVars, eqVars>>

(***************************************************************************)
(* Encoding, then decoding what was written or a truncation of it.         *)
(***************************************************************************)
\* the bytes write_stl produced, or the first n of them, become a source; it
\* ends with EOF or with an io error
LoadSource ==
    /\ wres = "ok"
    /\ dec = "nosource"
    /\ \E n \in 0..Len(sink) : src' = Prefix(sink, n)
    /\ srcFault' \in BOOLEAN
    /\ dec' = "none"
    /\ UNCHANGED <<seekFails, spos, createErr, index, size, dstart, dpos, ctor, via, out,
                   pulled, writerVars, probeVars, meshVars>>

\* as_indexed_triangles not called
InitIdleIndexer ==
    /\ stream = <<>>
    /\ asked = 0
    /\ ipc = "idle"
    /\ cur = <<>>
    /\ corner = 1
    /\ vertices = <<>>
    /\ triangles = <<>>
    /\ vertex_to_index = <<>>
    /\ vertex_indices = <<0, 0, 0>>
    /\ ires = "idle"

\* validate not called
InitIdleValidate ==
    /\ vmesh = [vertices |-> <<>>, faces |-> <<>>]
    /\ fi = 0
    /\ unconnected_edges = <<>>
    /\ vres = [kind |-> "Idle", err |-> NoError, face |-> 0, edge |-> <<>>]

\* eq not called
InitIdleEq ==
    /\ ea = <<>>
    /\ eb = <<>>
    /\ eres = [of |-> "idle", eq |-> FALSE]

InitWriter ==
    /\ mesh \in Meshes
    /\ wcap \in {DEFAULT_BUF_SIZE, SmallBufCapacity}
    /\ wpc = "header"
    /\ wk = 1 /\ wv = 1 /\ wi = 1
    /\ wbuf = <<>>
    /\ sink = <<>>
    /\ sinkFlushed = FALSE
    /\ sinkFailed = FALSE
    /\ wres = "running"

InitDecoder(d) ==
    /\ dec = d
    /\ createErr = NoError
    /\ index = 0 /\ size = 0
    /\ dstart = 0 /\ dpos = 0
    /\ ctor = "none" /\ via = "direct"
    /\ out = <<>>
    /\ pulled = <<>>
    /\ probeDone = FALSE
    /\ probeStart = 0
    /\ probeErr = NoError

InitBinary ==
    /\ InitWriter
    /\ InitDecoder("nosource")
    /\ InitIdleIndexer /\ InitIdleValidate /\ InitIdleEq
    /\ src = <<>>
    /\ srcFault = FALSE
    /\ seekFails = FALSE
    /\ spos = 0

NextBinary ==
    \/ write_stl
    \/ LoadSource
    \/ BinaryCreate
    \/ BinaryNext
    \/ ReadStl

SpecBinary == InitBinary /\ [][NextBinary]_vars

(***************************************************************************)
(* Properties of the encoder and the binary decoder, under SpecBinary.     *)
(***************************************************************************)
\* the items next() returned before it first returned None
ItemsOf(o) == SelectSeq(o, LAMBDA x : x.kind # "None")

\* the decoder reads the whole of what write_stl wrote, from a sound source
WholeFile == wres = "ok" /\ src = sink /\ ~srcFault /\ dstart = 0

\* the 12 floats of the record that starts at source offset o
FloatsAt(o) == [c \in 1..12 |-> f32_from_le_bytes(SubSeq(src, o + 4 * c - 3, o + 4 * c))]

\* the triangle stored in the k-th 50-byte record of the source
RecordAt(k) ==
    LET fl == FloatsAt(dstart + 84 + 50 * (k - 1))
    IN [normal |-> SubSeq(fl, 1, 3),
        vertices |-> <<SubSeq(fl, 4, 6), SubSeq(fl, 7, 9), SubSeq(fl, 10, 12)>>]

\* C1: feeding the bytes write_stl produced for a mesh to BinaryStlReader and
\* pulling items until the stream ends yields exactly the mesh's triangles,
\* component for component, in the original order.
C1_RoundTrip ==
    (WholeFile /\ dec = "binary" /\ Len(out) > 0 /\ out[Len(out)].kind = "None")
    => /\ Len(ItemsOf(out)) = Len(mesh)
       /\ \A k \in 1..Len(mesh) :
            ItemsOf(out)[k].kind = "Tri" /\ ItemsOf(out)[k].tri = mesh[k]

\* the value of the source's 4-byte count field
CountField ==
    src[dstart + 81] + src[dstart + 82] * 256
        + src[dstart + 83] * 65536 + src[dstart + 84] * 16777216

\* C2: a BinaryStlReader built from a source whose count field is N returns
\* exactly N items from next() and None from then on: the i-th call returns
\* None exactly when i > N, and the item counter never exceeds N.
C2_ExactlyNItems ==
    dec = "binary"
    => /\ (Len(src) - dstart >= 84 => size = CountField)
       /\ \A i \in 1..Len(out) : (out[i].kind = "None") <=> (i > size)
       /\ index = Min(Len(out), size)

\* C2's case: a count of two, two items, then None twice
C2_Witness ==
    /\ dec = "binary" /\ size = 2 /\ Len(out) = 4
    /\ out[1].kind # "None" /\ out[2].kind # "None"
    /\ out[3].kind = "None" /\ out[4].kind = "None"

\* C3: after k successful next() calls on a well-formed file the decoder has
\* consumed exactly 84 + 50*k bytes, and the k-th triangle is the one stored
\* in the k-th 50-byte record.
C3_FiftyByteRecords ==
    (WholeFile /\ dec = "binary" /\ \A i \in 1..Len(out) : out[i].kind = "Tri")
    => /\ dpos = dstart + 84 + 50 * Len(out)
       /\ \A k \in 1..Len(out) : out[k].tri = RecordAt(k)

\* C4: missing bytes never become data.  On a source that ends (EOF) before
\* the count field is complete the constructor fails with UnexpectedEof, and
\* when the source ends inside the k-th record the k-th next() returns an
\* UnexpectedEof error, not a triangle.
C4_TruncationIsAnError ==
    ~srcFault
    => /\ (dec \in {"binary", "failed"} /\ Len(src) - dstart < 84)
          => (dec = "failed" /\ createErr.kind = "UnexpectedEof")
       /\ dec = "binary"
          => \A k \in 1..Len(out) :
               ( /\ out[k].kind # "None"
                 /\ Len(src) - dstart > 84 + 50 * (k - 1)
                 /\ Len(src) - dstart < 84 + 50 * k )
               => (out[k].kind = "Err" /\ out[k].err.kind = "UnexpectedEof")

\* the twelve floats of a triangle in the order of the wire format
Components(t) ==
    t.normal \o t.vertices[1] \o t.vertices[2] \o t.vertices[3]

\* byte b (0 the least significant) of the IEEE-754 bit pattern of f
BitPatternByte(f, b) ==
    LET low == (f.e % 2) * 8388608 + f.m
    IN CASE b = 0 -> low % 256
         [] b = 1 -> (low \div 256) % 256
         [] b = 2 -> low \div 65536
         [] b = 3 -> f.s * 128 + f.e \div 2

\* the byte the binary layout has at offset o (from 0) for mesh m
LayoutByte(m, o) ==
    IF o < 80 THEN 0
    ELSE IF o < 84
    THEN CASE o = 80 -> Len(m) % 256
           [] o = 81 -> (Len(m) \div 256) % 256
           [] o = 82 -> (Len(m) \div 65536) % 256
           [] o = 83 -> (Len(m) \div 16777216) % 256
    ELSE LET k == (o - 84) \div 50
             q == (o - 84) % 50
         IN IF q >= 48 THEN 0
            ELSE BitPatternByte(Components(m[k + 1])[q \div 4 + 1], q % 4)

\* C5: when write_stl returns success for N triangles the sink has received
\* exactly 84 + 50*N bytes, all flushed: 80 zeros, N as a little-endian u32,
\* then per triangle 12 little-endian floats and 2 zero bytes; and if any
\* call on the underlying writer failed, write_stl returned an error.
C5_EncodedLayout ==
    /\ wres = "ok"
       => /\ Len(sink) = 84 + 50 * Len(mesh)
          /\ \A i \in 1..Len(sink) : sink[i] = LayoutByte(mesh, i - 1)
          /\ wbuf = <<>>
          /\ sinkFlushed
          /\ ~sinkFailed
    /\ sinkFailed => wres = "err"

\* C5's case: two triangles written with success through a buffer that
\* filled up on the way
C5_Witness ==
    wres = "ok" /\ Len(mesh) = 2 /\ wcap = SmallBufCapacity /\ mesh[1] # mesh[2]

(***************************************************************************)
(* The texts handed to the probe and to the ASCII decoder: a well-formed   *)
(* document of up to MaxFacets facets, with one line replaced, removed or  *)
(* preceded by a blank line, or cut off after any number of bytes; the     *)
(* example of the documentation; a binary document that begins "solid ";   *)
(* and two documents longer than a BufReader's buffer.                     *)
(***************************************************************************)
\* most facets in a document
MaxFacets == 2
\* furthest read position a source is handed over at
MaxStartOffset == 1

SP == <<32>>

Digit(k) == <<48 + k>>

L_solid == K_solid_sp \o Str(<<"a">>)
L_facet(k) == K_facet \o SP \o K_normal \o SP \o Digit(k) \o SP \o Digit(0) \o SP \o Digit(2)
L_outer == K_outer \o SP \o K_loop
L_vertex(a, b, c) == K_vertex \o SP \o a \o SP \o b \o SP \o c
L_endloop == K_endloop
L_endfacet == K_endfacet
L_endsolid == K_endsolid \o SP \o Str(<<"a">>)

\* the k-th facet of a document
Block(k) ==
    << L_facet(k), L_outer,
       L_vertex(Digit(k), Digit(1), Digit(0)),
       L_vertex(Digit(k), Digit(2), Digit(3)),
       L_vertex(Digit(1) \o Digit(2), Digit(k), Digit(1)),
       L_endloop, L_endfacet >>

RECURSIVE Blocks(_)
Blocks(n) == IF n = 0 THEN <<>> ELSE Blocks(n - 1) \o Block(n)

BaseLines(n) == <<L_solid>> \o Blocks(n) \o <<L_endsolid>>

\* lines put in the place of a line of a well-formed document
OddLines ==
    { <<>>,
      Str(<<" ", "\t">>),
      Str(<<"v", "e", "r", "t", "e", "x", " ", "1", " ", "N", "a", "N", " ", "0">>),
      Str(<<"v", "e", "r", "t", "e", "x", " ", "1", " ", "x", " ", "0">>),
      Str(<<"v", "e", "r", "t", "e", "x", " ", "1", " ", "2">>),
      Str(<<" ", "v", "e", "r", "t", "e", "x", "\t", "3", " ", " ", "1", " ", "2", " ">>),
      Str(<<"f", "a", "c", "e", "t", " ", "n", "o", "r", "m", "a", "l", " ", "1", " ",
            "i", "n", "f", " ", "0">>),
      Str(<<"f", "a", "c", "e", "t", " ", "n", "o", "r", "m", "a", "l", " ", "1", " ", "0">>),
      Str(<<"f", "a", "c", "e", "t", " ", "x", " ", "1", " ", "0", " ", "2">>),
      Str(<<"f", "a", "c", "e", "t", " ", "n", "o", "r", "m", "a", "l", " ", "-", "1", " ",
            "0", " ", "-", "0">>),
      Str(<<"o", "u", "t", "e", "r", " ", "l", "o", "o", "p", " ", "x">>),
      Str(<<"e", "n", "d", "l", "o", "o", "p", "\r">>),
      Str(<<"e", "n", "d", "f", "a", "c", "e", "t">>),
      Str(<<"e", "n", "d", "s", "o", "l", "i", "d">>),
      Str(<<"S", "o", "l", "i", "d", " ", "a">>),
      Str(<<"s", "o", "l", "i", "d", "x">>),
      \* vertex 1.5 6e-15 .5
      K_vertex \o SP \o <<49, 46, 53>> \o SP \o <<54, 101, 45, 49, 53>> \o SP \o <<46, 53>>,
      \* vertex 1e40 2 3: a literal beyond the largest f32
      K_vertex \o SP \o <<49, 101, 52, 48>> \o SP \o Digit(2) \o SP \o Digit(3),
      \* vertex 1 1e 3: an exponent without digits
      K_vertex \o SP \o Digit(1) \o SP \o <<49, 101>> \o SP \o Digit(3),
      \* facet normal 0.1 -2E+1 3.
      K_facet \o SP \o K_normal \o SP \o <<48, 46, 49>> \o SP \o <<45, 50, 69, 43, 49>>
          \o SP \o <<51, 46>>,
      \* vertex 1 <FF> 0: a byte that no UTF-8 sequence holds
      K_vertex \o SP \o Digit(1) \o SP \o <<255>> \o SP \o Digit(0),
      \* vertex 1<C2 A0>2 3: a no-break space (U+00A0) between two numbers
      K_vertex \o SP \o Digit(1) \o <<194, 160>> \o Digit(2) \o SP \o Digit(3) }

\* lines put in the place of the first line of a well-formed document
OddFirstLines ==
    { \* solid <C3>: a UTF-8 sequence cut short by the end of the line
      K_solid_sp \o <<195>>,
      \* solid <C3 A9>: the name U+00E9
      K_solid_sp \o <<195, 169>> }

BlankLines == { <<>>, Str(<<" ", "\t">>) }

\* the text of a sequence of lines: a newline after each but the last
RECURSIVE Join(_)
Join(ls) ==
    IF ls = <<>> THEN <<>>
    ELSE IF Len(ls) = 1 THEN ls[1]
    ELSE ls[1] \o <<NL>> \o Join(Tail(ls))

Variants(ls) ==
    {ls}
    \cup { [ls EXCEPT ![i] = r] : i \in 1..Len(ls), r \in OddLines }
    \cup { [ls EXCEPT ![1] = r] : r \in OddFirstLines }
    \cup { Prefix(ls, i - 1) \o <<r>> \o Drop(ls, i - 1) : i \in 1..(Len(ls) + 1), r \in BlankLines }
    \cup { Prefix(ls, i - 1) \o Drop(ls, i) : i \in 1..Len(ls) }

EditedTexts == UNION { { Join(v) : v \in Variants(BaseLines(n)) } : n \in 0..MaxFacets }

Indent(n) == [i \in 1..n |-> 32]

\* the document of the example in read_stl's documentation (lines 202-210)
DocExample ==
    LET foobar == <<102, 111, 111, 98, 97, 114>>
        n01 == <<48, 46, 49>>
        n02 == <<48, 46, 50>>
        n03 == <<48, 46, 51>>
        n6e15 == <<54, 101, 45, 49, 53>>
        n987 == <<57, 46, 56, 55, 54, 53, 52, 51, 50, 49>>
    IN Join(<< K_solid_sp \o foobar,
               Indent(6) \o K_facet \o SP \o K_normal \o SP \o n01 \o SP \o n02 \o SP \o n03,
               Indent(10) \o L_outer,
               Indent(14) \o L_vertex(Digit(1), Digit(2), Digit(3)),
               Indent(14) \o L_vertex(Digit(4), Digit(5), n6e15),
               Indent(14) \o L_vertex(Digit(7), Digit(8), n987),
               Indent(10) \o L_endloop,
               Indent(6) \o L_endfacet,
               Indent(6) \o K_endsolid \o SP \o foobar >>)

\* a binary document of one triangle whose 80-byte header begins "solid bin":
\* its first line is the whole document, and holds the bytes of the floats
SolidBinary ==
    LET name == K_solid_sp \o <<98, 105, 110>>
        t == [normal |-> <<F_one, F_pi, F_negzero>>, vertices |-> T_A.vertices]
    IN [o \in 1..134 |-> IF o <= Len(name) THEN name[o] ELSE LayoutByte(<<t>>, o - 1)]

\* n times the letter a
Filler(n) == [i \in 1..n |-> 97]

\* a document whose first line, 8301 bytes, is longer than a BufReader's
\* buffer: reading it takes two fills of the buffer
LongFirstLine ==
    Join(<<K_solid_sp \o Filler(DEFAULT_BUF_SIZE + 102)>> \o Blocks(1) \o <<L_endsolid>>)

\* a document of two facets in which the buffer of a BufReader created at
\* its start ends inside the second facet: the first line has 8100 bytes
\* and each facet 87
LongDocument ==
    Join(<<K_solid_sp \o Filler(DEFAULT_BUF_SIZE - 99)>> \o Blocks(2) \o <<L_endsolid>>)

CutTexts ==
    LET whole == Join(BaseLines(MaxFacets)) \o <<NL>>
    IN { Prefix(whole, n) : n \in 0..Len(whole) }

InitIdleWriter ==
    /\ mesh = <<>>
    /\ wcap = DEFAULT_BUF_SIZE
    /\ wpc = "done"
    /\ wk = 1 /\ wv = 1 /\ wi = 1
    /\ wbuf = <<>>
    /\ sink = <<>>
    /\ sinkFlushed = FALSE
    /\ sinkFailed = FALSE
    /\ wres = "idle"

InitAscii ==
    /\ InitIdleWriter
    /\ InitDecoder("none")
    /\ InitIdleIndexer /\ InitIdleValidate /\ InitIdleEq
    /\ \/ /\ src \in EditedTexts \cup {DocExample, SolidBinary, LongFirstLine, LongDocument}
          /\ srcFault = FALSE
       \/ src \in CutTexts /\ srcFault \in BOOLEAN
    /\ seekFails \in BOOLEAN
    /\ spos \in 0..Min(MaxStartOffset, Len(src))

NextAscii ==
    \/ Probe
    \/ AsciiCreate
    \/ CreateStlReader
    \/ AsciiNext
    \/ BinaryNext
    \/ ReadStl

SpecAscii == InitAscii /\ [][NextAscii]_vars


(***************************************************************************)
(* Properties of the probe, of create_stl_reader and of the ASCII decoder, *)
(* stated on the bytes of the source.                                      *)
(***************************************************************************)
\* the offset of the first newline after offset p, 0 when there is none
NewlineAfter(p) ==
    Bind({j \in (p + 1)..Len(src) : src[j] = NL}, LAMBDA s :
         IF s = {} THEN 0 ELSE Least(s))

\* the bytes of the line at offset p, its newline included
LineBytes(p) ==
    Bind(NewlineAfter(p), LAMBDA e : SubSeq(src, p + 1, IF e = 0 THEN Len(src) ELSE e))

\* the bytes of the line at offset p can be read: the line ends with a
\* newline, or the source ends without failing
LineEnds(p) == NewlineAfter(p) # 0 \/ ~srcFault

\* c is the UTF-8 encoding of one Unicode scalar value: the shortest encoding
\* of a code point up to U+10FFFF that is no surrogate
EncodesScalar(c) ==
    LET cont(i) == c[i] \in 128..191
        low(i) == c[i] - 128
    IN CASE Len(c) = 1 -> c[1] < 128
         [] Len(c) = 2 -> /\ c[1] \in 192..223 /\ cont(2)
                          /\ (c[1] - 192) * 64 + low(2) >= 128
         [] Len(c) = 3 -> /\ c[1] \in 224..239 /\ cont(2) /\ cont(3)
                          /\ (c[1] - 224) * 4096 + low(2) * 64 + low(3) >= 2048
                          /\ (c[1] - 224) * 4096 + low(2) * 64 + low(3) \notin 55296..57343
         [] OTHER -> /\ c[1] \in 240..247 /\ cont(2) /\ cont(3) /\ cont(4)
                     /\ (c[1] - 240) * 262144 + low(2) * 4096 + low(3) * 64 + low(4)
                            \in 65536..1114111

\* the bytes of s from index j on are a sequence of encoded scalar values
RECURSIVE ScalarsFrom(_, _)
ScalarsFrom(s, j) ==
    \/ j > Len(s)
    \/ \E n \in 1..4 :
          /\ j + n - 1 <= Len(s)
          /\ EncodesScalar(SubSeq(s, j, j + n - 1))
          /\ ScalarsFrom(s, j + n)

\* s is text: well-formed UTF-8
WellFormedUtf8(s) == (\A i \in 1..Len(s) : s[i] < 128) \/ ScalarsFrom(s, 1)

\* reading a line at offset p succeeds: its bytes can be read and are text
HeaderReadable(p) == LineEnds(p) /\ WellFormedUtf8(LineBytes(p))

\* the bytes s, o, l, i, d, space
SolidPrefix == <<115, 111, 108, 105, 100, 32>>

\* the bytes at offset p are "solid "
BeginsSolid(p) == Len(src) - p >= 6 /\ \A i \in 1..6 : src[p + i] = SolidPrefix[i]

\* probe was called on its own and has returned
ProbeReturned == probeDone /\ dec = "none"

\* C6 as stated: when probe has returned and its seek did not fail, the source
\* is at the position it had when probe was called
C6_CallPositionRestored ==
    (ProbeReturned /\ ~seekFails) => spos = probeStart

\* C6, amended: when probe has returned and its seek did not fail, the source
\* is at offset 0, whatever the outcome (ASCII, not ASCII, read failure); the
\* seek comes before a read failure is reported, so a failed seek is what
\* probe reports even when the read failed too
C6_RewindsToOffsetZero ==
    ProbeReturned =>
        /\ ~seekFails => spos = 0
        /\ seekFails <=> probeErr = SeekError
        /\ (~seekFails /\ ~LineEnds(probeStart)) => probeErr = IoError
        /\ (~seekFails /\ LineEnds(probeStart) /\ ~HeaderReadable(probeStart))
               => probeErr = InvalidUtf8
        /\ (~seekFails /\ HeaderReadable(probeStart)) =>
               /\ probeErr = NoError <=> BeginsSolid(probeStart)
               /\ probeErr # NoError => probeErr.kind = "InvalidData"

\* C6's case: probe called at offset 1, the read of the first line failed, the
\* seek succeeded and the failure was reported with the source at offset 0
C6_Witness ==
    /\ ProbeReturned
    /\ probeStart = 1
    /\ ~seekFails
    /\ ~HeaderReadable(1)
    /\ probeErr = IoError
    /\ spos = 0

\* the binary decoder's construction at offset p succeeds
BinaryHeaderReadable(p) ==
    Len(src) - p >= 80 /\ ~(Len(src) - p = 80 /\ srcFault)

\* what C7 says of the other cases: the binary decoder is constructed on the
\* same source, and what the caller gets is that construction's result, not
\* the probe's error
BinaryInstead ==
    ctor # "ascii" =>
        /\ ctor = "binary"
        /\ dec = "binary" <=> BinaryHeaderReadable(dstart)
        /\ createErr.kind \notin {"InvalidData"}
        /\ createErr # SeekError

\* C7 as stated: create_stl_reader selects the ASCII decoder iff the first
\* line was read without error and begins with "solid "; otherwise it
\* constructs the binary decoder and the probe's error is not returned
C7_AsciiIffSolidLine ==
    via = "create_stl_reader" =>
        /\ ctor = "ascii" <=> (HeaderReadable(probeStart) /\ BeginsSolid(probeStart))
        /\ BinaryInstead

\* where reading the line at offset p through a fresh BufReader leaves the
\* source: at the first of the offsets p + 8192, p + 2 * 8192, ... that is
\* not before the end of the line, or at the end of the source
ReadAhead(p) ==
    Bind(NewlineAfter(p), LAMBDA e :
        IF e = 0 THEN Len(src)
        ELSE Least({ q \in { Min(Len(src), p + DEFAULT_BUF_SIZE * k) :
                                 k \in 1..((Len(src) \div DEFAULT_BUF_SIZE) + 1) } : q >= e }))

\* C7, amended: create_stl_reader selects the ASCII decoder iff the first
\* line of the source was read without error, begins with "solid ", and the
\* probe's seek succeeded; in every other case, a failed seek included, it
\* constructs the binary decoder on the same source (at its start when the
\* seek succeeded, where the probe's reading left it when the seek failed)
\* and the probe's error is not returned
C7_AsciiIffSolidLineAndSeek ==
    via = "create_stl_reader" =>
        /\ ctor = "ascii" <=>
               (HeaderReadable(probeStart) /\ BeginsSolid(probeStart) /\ ~seekFails)
        /\ BinaryInstead
        /\ dstart = IF seekFails THEN ReadAhead(probeStart) ELSE 0

\* C7's case: a first line "Solid a", read without error, and a text long
\* enough for the binary decoder, which create_stl_reader returned although
\* the probe failed
C7_Witness ==
    /\ via = "create_stl_reader"
    /\ ~seekFails
    /\ probeStart = 0
    /\ Len(src) >= 6
    /\ src[1] = 83
    /\ BeginsSolid(0) = FALSE
    /\ probeErr.kind = "InvalidData"
    /\ dec = "binary"
    /\ createErr = NoError

\* the offsets of the newlines after offset p
NewlinesAfter(p) == {j \in (p + 1)..Len(src) : src[j] = NL}

\* the offset at which line number k after offset p ends: that of its
\* newline, or the end of the source for a last line that has none
LineEnd(p, k) ==
    Bind(NewlinesAfter(p), LAMBDA nls :
        IF k > Cardinality(nls) THEN Len(src) + 1
        ELSE CHOOSE j \in nls : Cardinality({i \in nls : i <= j}) = k)

\* how many lines a reader can read from offset p on: one for each newline,
\* and one more for what follows the last newline unless the source is
\* faulty
LineCount(p) ==
    Bind(NewlinesAfter(p), LAMBDA nls :
        Cardinality(nls)
            + (IF ~srcFault /\ p < Len(src) /\ Len(src) \notin nls THEN 1 ELSE 0))

\* the bytes of line number k after offset p, without its newline
LineText(p, k) ==
    SubSeq(src, (IF k = 1 THEN p ELSE LineEnd(p, k - 1)) + 1, LineEnd(p, k) - 1)

\* the lines of the source from offset p as a reader hands them out, each
\* split into its tokens: a line that is not text is an error and no line,
\* and a faulty source fails instead of handing out a last line that has
\* no newline
TextLines(p) ==
    Bind(SelectSeq([k \in 1..LineCount(p) |-> LineText(p, k)], WellFormedUtf8),
         LAMBDA ls : [k \in 1..Len(ls) |-> split_whitespace(ls[k])])

\* the non-blank lines after the first line, which construction read
LinesAfterFirst ==
    Bind(TextLines(dstart), LAMBDA ls : IF ls = <<>> THEN <<>> ELSE Tail(ls))

BodyLines == SelectSeq(LinesAfterFirst, LAMBDA t : t # <<>>)

\* the lines the first n next() calls took from the source, in order
RECURSIVE PulledLines(_)
PulledLines(n) == IF n = 0 THEN <<>> ELSE PulledLines(n - 1) \o pulled[n].lines

IsPrefixSeq(a, b) == Len(a) <= Len(b) /\ \A i \in 1..Len(a) : a[i] = b[i]

FirstToken(tokens) == IF tokens = <<>> THEN <<>> ELSE tokens[1]

\* the i-th line of a block has the keywords and the token count of its place
LineShape(i, tokens) ==
    CASE i = 1 -> Len(tokens) = 5 /\ tokens[1] = K_facet /\ tokens[2] = K_normal
      [] i = 2 -> tokens = <<K_outer, K_loop>>
      [] i \in 3..5 -> Len(tokens) = 4 /\ tokens[1] = K_vertex
      [] i = 6 -> tokens = <<K_endloop>>
      [] OTHER -> tokens = <<K_endfacet>>

\* the numeric tokens of the i-th line of a block
NumericTokens(i, tokens) ==
    CASE i = 1 -> SubSeq(tokens, 3, 5)
      [] i \in 3..5 -> SubSeq(tokens, 2, 4)
      [] OTHER -> <<>>

\* the float literals that the documents hold, each with the f32 that IEEE
\* 754 rounding to nearest gives its decimal value (sign bit, exponent
\* field, fraction field); NaN is a NaN; every other token of the documents
\* is no float literal
Literals ==
       (<<48>> :> [s |-> 0, e |-> 0, m |-> 0])   \* 0
    @@ (<<49>> :> [s |-> 0, e |-> 127, m |-> 0])   \* 1
    @@ (<<50>> :> [s |-> 0, e |-> 128, m |-> 0])   \* 2
    @@ (<<51>> :> [s |-> 0, e |-> 128, m |-> 4194304])   \* 3
    @@ (<<52>> :> [s |-> 0, e |-> 129, m |-> 0])   \* 4
    @@ (<<53>> :> [s |-> 0, e |-> 129, m |-> 2097152])   \* 5
    @@ (<<54>> :> [s |-> 0, e |-> 129, m |-> 4194304])   \* 6
    @@ (<<55>> :> [s |-> 0, e |-> 129, m |-> 6291456])   \* 7
    @@ (<<56>> :> [s |-> 0, e |-> 130, m |-> 0])   \* 8
    @@ (<<57>> :> [s |-> 0, e |-> 130, m |-> 1048576])   \* 9
    @@ (<<49, 50>> :> [s |-> 0, e |-> 130, m |-> 4194304])   \* 12
    @@ (<<45, 49>> :> [s |-> 1, e |-> 127, m |-> 0])   \* -1
    @@ (<<45, 48>> :> [s |-> 1, e |-> 0, m |-> 0])   \* -0
    @@ (<<49, 46, 53>> :> [s |-> 0, e |-> 127, m |-> 4194304])   \* 1.5
    @@ (<<46, 53>> :> [s |-> 0, e |-> 126, m |-> 0])   \* .5
    @@ (<<51, 46>> :> [s |-> 0, e |-> 128, m |-> 4194304])   \* 3.
    @@ (<<45, 50, 69, 43, 49>> :> [s |-> 1, e |-> 131, m |-> 2097152])   \* -2E+1
    @@ (<<48, 46, 49>> :> [s |-> 0, e |-> 123, m |-> 5033165])   \* 0.1
    @@ (<<48, 46, 50>> :> [s |-> 0, e |-> 124, m |-> 5033165])   \* 0.2
    @@ (<<48, 46, 51>> :> [s |-> 0, e |-> 125, m |-> 1677722])   \* 0.3
    @@ (<<54, 101, 45, 49, 53>> :> [s |-> 0, e |-> 79, m |-> 5778491])   \* 6e-15
    @@ (<<57, 46, 56, 55, 54, 53, 52, 51, 50, 49>> :> [s |-> 0, e |-> 130, m |-> 1967698])   \* 9.87654321
    @@ (<<105, 110, 102>> :> [s |-> 0, e |-> 255, m |-> 0])   \* inf
    @@ (<<49, 101, 52, 48>> :> [s |-> 0, e |-> 255, m |-> 0])   \* 1e40
    @@ (<<78, 97, 78>> :> [s |-> 0, e |-> 255, m |-> 4194304])   \* NaN

\* a token that is a float literal with a finite value
FiniteLiteral(tok) == tok \in DOMAIN Literals /\ Literals[tok].e # 255

LineNumbersFinite(i, tokens) ==
    \A k \in 1..Len(NumericTokens(i, tokens)) : FiniteLiteral(NumericTokens(i, tokens)[k])

\* the seven lines of one facet, in order
IsBlock(L) == Len(L) = 7 /\ \A i \in 1..7 : LineShape(i, L[i])

\* the values of literals
FloatsOf(tokens) == [k \in 1..Len(tokens) |-> Literals[tokens[k]]]

\* the triangle the seven lines of a block stand for
TriangleOf(L) ==
    [normal |-> FloatsOf(NumericTokens(1, L[1])),
     vertices |-> << FloatsOf(NumericTokens(3, L[3])),
                     FloatsOf(NumericTokens(4, L[4])),
                     FloatsOf(NumericTokens(5, L[5])) >>]

\* C8: a next() call of the ASCII decoder that returns a triangle took exactly
\* the seven non-blank lines of one block, in order, and the triangle is the
\* one they stand for; a call whose first non-blank line has first token
\* endsolid took that line only and signals completion; over all calls, the
\* lines taken are the non-blank lines of the source in the order they appear,
\* none skipped, so that triangles come in the order of their blocks
C8_OneBlockPerCall ==
    ctor = "ascii" =>
        /\ \A c \in 1..Len(out) :
               /\ out[c].kind = "Tri" =>
                      /\ IsBlock(pulled[c].lines)
                      /\ out[c].tri = TriangleOf(pulled[c].lines)
               /\ out[c].kind = "None" <=>
                      /\ pulled[c].lines # <<>>
                      /\ FirstToken(pulled[c].lines[1]) = K_endsolid
               /\ out[c].kind = "None" => Len(pulled[c].lines) = 1
        /\ IsPrefixSeq(PulledLines(Len(out)), BodyLines)

\* C8's case: a document of two facets with a blank line among them; the
\* first call returned the triangle of the first block, the second call
\* that of the second block, another triangle, and the third met endsolid
C8_Witness ==
    /\ ctor = "ascii"
    /\ Len(out) = 3
    /\ out[1].kind = "Tri"
    /\ out[2].kind = "Tri"
    /\ out[3].kind = "None"
    /\ Len(LinesAfterFirst) = 16
    /\ Len(BodyLines) = 15
    /\ out[1].tri = TriangleOf(SubSeq(BodyLines, 1, 7))
    /\ out[2].tri = TriangleOf(SubSeq(BodyLines, 8, 14))
    /\ out[1].tri # out[2].tri

\* the error a call returned is of kind k
ReturnedError(c, k) == out[c].kind = "Err" /\ out[c].err.kind = k

\* the last line a call took
LastLine(c) == pulled[c].lines[Len(pulled[c].lines)]

\* C9: a next() call of the ASCII decoder returns a triangle only when it took
\* a complete block with the right keywords whose 12 numeric tokens are finite
\* float literals; when the lines ran out during the call it returns an
\* unexpected-end error; when the last line it took has a wrong keyword or a
\* wrong token count, or a numeric token that does not parse or is not
\* finite, it returns an invalid-data error; it signals the end only on
\* endsolid
C9_NoPartialTriangle ==
    ctor = "ascii" =>
        \A c \in 1..Len(out) :
            /\ out[c].kind = "Tri" <=>
                   /\ IsBlock(pulled[c].lines)
                   /\ \A i \in 1..7 : LineNumbersFinite(i, pulled[c].lines[i])
            /\ pulled[c].dry => ReturnedError(c, "UnexpectedEof")
            /\ out[c].kind = "None" =>
                   /\ ~pulled[c].dry
                   /\ pulled[c].lines # <<>>
                   /\ FirstToken(LastLine(c)) = K_endsolid
            /\ ( /\ pulled[c].lines # <<>>
                 /\ ~(Len(pulled[c].lines) = 1 /\ FirstToken(LastLine(c)) = K_endsolid)
                 /\ \/ ~LineShape(Len(pulled[c].lines), LastLine(c))
                    \/ ~LineNumbersFinite(Len(pulled[c].lines), LastLine(c)) )
               => ReturnedError(c, "InvalidData")

\* C9's case: a call met a vertex line of the right shape with the token NaN
\* and returned an invalid-data error
C9_Witness ==
    /\ ctor = "ascii"
    /\ Len(out) >= 1
    /\ ReturnedError(1, "InvalidData")
    /\ Len(pulled[1].lines) = 3
    /\ LineShape(3, pulled[1].lines[3])
    /\ pulled[1].lines[3][3] = <<78, 97, 78>>

\* C10: AsciiStlReader::create_triangle_iterator fails at construction, before
\* any next() call, with an invalid-data error when the first line does not
\* start with "solid ", with an unexpected-end error when the source is empty,
\* and with the read's error when reading the first line fails; it returns a
\* decoder only when the first line starts with "solid "
C10_EagerFirstLineCheck ==
    ctor = "ascii" =>
        /\ dec \in {"ascii", "failed"}
        /\ dec = "ascii" <=> (HeaderReadable(dstart) /\ BeginsSolid(dstart))
        /\ dec = "ascii" <=> createErr = NoError
        /\ dec = "failed" => out = <<>>
        /\ ~LineEnds(dstart) => createErr = IoError
        /\ (LineEnds(dstart) /\ ~HeaderReadable(dstart)) => createErr = InvalidUtf8
        /\ (HeaderReadable(dstart) /\ Len(src) = dstart) => createErr.kind = "UnexpectedEof"
        /\ (HeaderReadable(dstart) /\ Len(src) > dstart /\ ~BeginsSolid(dstart))
               => createErr.kind = "InvalidData"

\* C10's case: the constructor, called directly on a text whose first line is
\* "solidx", returned an invalid-data error
C10_Witness ==
    /\ ctor = "ascii"
    /\ via = "direct"
    /\ dstart = 0
    /\ Len(src) >= 6
    /\ \A i \in 1..5 : src[i] = SolidPrefix[i]
    /\ src[6] = 120
    /\ dec = "failed"
    /\ createErr.kind = "InvalidData"
    /\ out = <<>>

(***************************************************************************)
(* TriangleIterator::as_indexed_triangles (lines 328-359), on a stream     *)
(* that yields the items of `stream` and then None.                        *)
(***************************************************************************)
\* most items in a stream
MaxStream == 3

\* 0.0
F_zero == [s |-> 0, e |-> 0, m |-> 0]

\* vertices that streams share: the corners of a tetrahedron, the origin with
\* a negative zero, and a corner with a NaN
P_o == <<F_zero, F_zero, F_zero>>
P_x == <<F_one, F_zero, F_zero>>
P_y == <<F_zero, F_one, F_zero>>
P_z == <<F_zero, F_zero, F_one>>
P_negzero == <<F_negzero, F_zero, F_zero>>
P_nan == <<F_nan, F_zero, F_zero>>

Tri(n, a, b, c) == [normal |-> n, vertices |-> <<a, b, c>>]

StreamTriangles ==
    { Tri(P_z, P_o, P_y, P_x),
      Tri(P_y, P_o, P_x, P_z),
      Tri(P_x, P_o, P_z, P_y),
      Tri(P_nan, P_x, P_y, P_z),
      Tri(P_o, P_negzero, P_x, P_x),
      Tri(P_negzero, P_nan, P_o, P_nan) }

StreamItems ==
    { ItemTri(t) : t \in StreamTriangles }
    \cup { ItemErr(IoError), ItemErr(InvalidData("invalid facet header")) }

Streams == UNION { [1..n -> StreamItems] : n \in 0..MaxStream }

\* line 335: the for loop asks the stream for its next item
IndexNext ==
    /\ ipc = "next"
    /\ asked' = asked + 1
    /\ IF asked >= Len(stream)
       THEN /\ ires' = ok_mesh(vertices, triangles)
            /\ ipc' = "done"
            /\ UNCHANGED <<cur, corner>>
       ELSE IF stream[asked + 1].kind = "Err"
       THEN /\ ires' = question_mark(stream[asked + 1].err, vertices, triangles)
            /\ ipc' = "done"
            /\ UNCHANGED <<cur, corner>>
       ELSE /\ cur' = stream[asked + 1].tri
            /\ corner' = 1
            /\ ipc' = "vertex"
            /\ UNCHANGED ires
    /\ UNCHANGED <<stream, vertices, triangles, vertex_to_index, vertex_indices,
                   validateVars, eqVars, codecVars>>

\* lines 337-347: one round of the inner loop
IndexVertex ==
    /\ ipc = "vertex"
    /\ \E r \in {entry_or_insert(vertex_to_index, bitpattern(cur.vertices[corner]), vertices)} :
          /\ vertex_to_index' = r.map
          /\ vertices' = IF r.index = Len(vertices)
                         THEN Append(vertices, cur.vertices[corner])
                         ELSE vertices
          /\ vertex_indices' = [vertex_indices EXCEPT ![corner] = r.index]
    /\ IF corner = 3
       THEN ipc' = "push" /\ UNCHANGED corner
       ELSE corner' = corner + 1 /\ UNCHANGED ipc
    /\ UNCHANGED <<stream, asked, cur, triangles, ires, validateVars, eqVars, codecVars>>

\* lines 348-351
IndexPush ==
    /\ ipc = "push"
    /\ triangles' = Append(triangles, [normal |-> cur.normal, vertices |-> vertex_indices])
    /\ ipc' = "next"
    /\ UNCHANGED <<stream, asked, cur, corner, vertices, vertex_to_index, vertex_indices,
                   ires, validateVars, eqVars, codecVars>>

as_indexed_triangles == IndexNext \/ IndexVertex \/ IndexPush

\* as_indexed_triangles called on a stream: lines 329-334
InitIndexer ==
    /\ InitIdleWriter
    /\ InitDecoder("none")
    /\ src = <<>> /\ srcFault = FALSE /\ seekFails = FALSE /\ spos = 0
    /\ InitIdleValidate /\ InitIdleEq
    /\ stream \in Streams
    /\ asked = 0
    /\ ipc = "next"
    /\ cur = <<>>
    /\ corner = 1
    /\ vertices = <<>>
    /\ triangles = <<>>
    /\ vertex_to_index = <<>>
    /\ vertex_indices = <<0, 0, 0>>
    /\ ires = "running"

NextIndexer == IndexNext \/ IndexVertex \/ IndexPush

SpecIndexer == InitIndexer /\ [][NextIndexer]_vars

(***************************************************************************)
(* Properties of as_indexed_triangles, stated on the stream.               *)
(***************************************************************************)
\* the corners of the first n items of the stream, in arrival order
RECURSIVE Corners(_)
Corners(n) == IF n = 0 THEN <<>> ELSE Corners(n - 1) \o stream[n].tri.vertices

Range(s) == { s[i] : i \in 1..Len(s) }

\* the elements of s in the order of their first occurrence
RECURSIVE FirstOccurrences(_)
FirstOccurrences(s) ==
    IF s = <<>> THEN <<>>
    ELSE Bind(FirstOccurrences(Prefix(s, Len(s) - 1)), LAMBDA r :
              IF s[Len(s)] \in Range(r) THEN r ELSE Append(r, s[Len(s)]))

\* the positions of the stream's errors
ErrorPositions == { j \in 1..Len(stream) : stream[j].kind = "Err" }

\* C11: for a stream of N triangles and no error, with K distinct vertex bit
\* patterns, as_indexed_triangles returns a mesh whose vertex list is the K
\* distinct vertices in order of first occurrence, no two bit-identical, whose
\* face list has N faces in arrival order, each with its triangle's normal,
\* and vertices[faces[f].vertices[i]] is bit-identical to corner i of the
\* f-th triangle
C11_Deduplication ==
    (ipc = "done" /\ ErrorPositions = {}) =>
        /\ ires.kind = "Ok"
        /\ Len(ires.mesh.vertices) = Cardinality(Range(Corners(Len(stream))))
        /\ ires.mesh.vertices = FirstOccurrences(Corners(Len(stream)))
        /\ \A a, b \in 1..Len(ires.mesh.vertices) :
               ires.mesh.vertices[a] = ires.mesh.vertices[b] => a = b
        /\ Len(ires.mesh.faces) = Len(stream)
        /\ \A f \in 1..Len(stream) :
               /\ ires.mesh.faces[f].normal = stream[f].tri.normal
               /\ \A i \in 1..3 :
                      /\ ires.mesh.faces[f].vertices[i] \in 0..(Len(ires.mesh.vertices) - 1)
                      /\ ires.mesh.vertices[ires.mesh.faces[f].vertices[i] + 1]
                             = stream[f].tri.vertices[i]

\* C11's case: three triangles that share vertices, among them the origin
\* with a positive and with a negative zero, which stay two vertices
C11_Witness ==
    /\ ipc = "done"
    /\ ErrorPositions = {}
    /\ Len(stream) = 3
    /\ ires.kind = "Ok"
    /\ Len(ires.mesh.vertices) = 5
    /\ P_o \in Range(ires.mesh.vertices)
    /\ P_negzero \in Range(ires.mesh.vertices)

\* C12: when the stream's j-th item is its first error, as_indexed_triangles
\* returns that error and no mesh, and has asked the stream for j items, no
\* more
C12_ErrorPropagation ==
    (ipc = "done" /\ ErrorPositions # {}) =>
        \A j \in ErrorPositions :
            (\A k \in ErrorPositions : j <= k) =>
                /\ ires.kind = "Err"
                /\ ires.err = stream[j].err
                /\ ires.mesh = [vertices |-> <<>>, faces |-> <<>>]
                /\ asked = j

\* C12's case: the second of three items is an error, the third is a
\* different error, and a face had been built when the error came
C12_Witness ==
    /\ ipc = "done"
    /\ Len(stream) = 3
    /\ ErrorPositions = {2, 3}
    /\ stream[2].err # stream[3].err
    /\ Len(triangles) = 1
    /\ ires.kind = "Err"
    /\ asked = 2

\* the vertices the inner loop has processed so far
Processed ==
    Corners(Len(triangles))
    \o (CASE ipc = "vertex" -> Prefix(cur.vertices, corner - 1)
          [] ipc = "push" -> cur.vertices
          [] OTHER -> <<>>)

\* C17: after every vertex as_indexed_triangles has processed, the map is a
\* bijection between the bit patterns seen so far and 0..vertices.len()-1,
\* vertices[map[p]] has bit pattern p, and every index stored in a face, or
\* about to be, is less than vertices.len(); so it is in the mesh returned
C17_IndexValidity ==
    (ipc \in {"next", "vertex", "push"} \/ (ipc = "done" /\ ires.kind = "Ok")) =>
        /\ DOMAIN vertex_to_index = { bitpattern(v) : v \in Range(Processed) }
        /\ { vertex_to_index[p] : p \in DOMAIN vertex_to_index } = 0..(Len(vertices) - 1)
        /\ \A p, q \in DOMAIN vertex_to_index :
               vertex_to_index[p] = vertex_to_index[q] => p = q
        /\ \A p \in DOMAIN vertex_to_index :
               bitpattern(vertices[vertex_to_index[p] + 1]) = p
        /\ \A f \in 1..Len(triangles) : \A i \in 1..3 :
               triangles[f].vertices[i] < Len(vertices)
        /\ ipc = "push" => \A i \in 1..3 : vertex_indices[i] < Len(vertices)
        /\ ipc = "done" =>
               \A f \in 1..Len(ires.mesh.faces) : \A i \in 1..3 :
                   ires.mesh.faces[f].vertices[i] < Len(ires.mesh.vertices)

\* C17's case: in the second triangle, after its first vertex, which the
\* first triangle had too
C17_Witness ==
    /\ ipc = "vertex"
    /\ corner = 2
    /\ Len(triangles) = 1
    /\ Len(vertices) = 3
    /\ vertex_indices[1] < 3
    /\ cur.vertices[1] \in Range(stream[1].tri.vertices)

(***************************************************************************)
(* f32 arithmetic (IEEE 754 binary32, round to nearest, ties to even), as  *)
(* tri_area and eq_e! use it.  A finite f32 [s, e, m] is                   *)
(* (-1)^s * significand * 2^exponent with a significand below 2^24; an     *)
(* exact intermediate result is the wide number hi * 2^24 + lo, lo below   *)
(* 2^24, times a power of two.  Which NaN an operation yields is not       *)
(* fixed by Rust and is never looked at: every NaN result is f32_nan.      *)
(***************************************************************************)
Max(a, b) == IF a > b THEN a ELSE b

f32_nan == [s |-> 0, e |-> 255, m |-> 4194304]

f32_is_nan(x) == x.e = 255 /\ x.m # 0
f32_is_infinite(x) == x.e = 255 /\ x.m = 0
f32_is_zero(x) == x.e = 0 /\ x.m = 0

significand(x) == IF x.e = 0 THEN x.m ELSE 8388608 + x.m
exponent(x) == (IF x.e = 0 THEN 1 ELSE x.e) - 150

\* the number of binary digits of n, 0 <= n < 2^30
bit_length(n) == IF n = 0 THEN 0 ELSE CHOOSE k \in 1..30 : pow2(k - 1) <= n /\ n < pow2(k)

\* the f32 with sign bit s and value q * 2^ex, for q <= 2^24 that is at
\* least 2^23 unless ex = -149: infinite from 2^128 on
f32_pack(s, ex, q) ==
    IF q = 0 THEN f32_zero(s)
    ELSE IF q < 8388608 THEN [s |-> s, e |-> 0, m |-> q]
    ELSE IF q = 16777216
         THEN (IF ex + 151 >= 255 THEN f32_infinity(s)
               ELSE [s |-> s, e |-> ex + 151, m |-> 0])
         ELSE (IF ex + 150 >= 255 THEN f32_infinity(s)
               ELSE [s |-> s, e |-> ex + 150, m |-> q - 8388608])

\* 1 when a quotient q with remainder rem, of which half is one half, and
\* with more below iff sticky, rounds up
round_up(q, rem, half, sticky) ==
    IF rem > half \/ (rem = half /\ (sticky \/ q % 2 = 1)) THEN 1 ELSE 0

\* the f32 nearest to (hi * 2^24 + lo) * 2^ex with sign bit s, for
\* hi < 2^28: r low digits are dropped, so that 24 are left or the last
\* one kept is worth 2^-149
f32_round(s, hi, lo, ex) ==
    Bind(Max((IF hi > 0 THEN bit_length(hi) ELSE bit_length(lo) - 24), -149 - ex),
         LAMBDA r :
        IF r <= 0 THEN f32_pack(s, ex + r, lo * pow2(-r))
        ELSE IF r > 52 THEN f32_zero(s)
        ELSE IF r <= 24
        THEN Bind([q |-> hi * pow2(24 - r) + (lo \div pow2(r)),
                   rem |-> lo % pow2(r)], LAMBDA t :
                 f32_pack(s, ex + r, t.q + round_up(t.q, t.rem, pow2(r - 1), FALSE)))
        ELSE Bind([q |-> hi \div pow2(r - 24),
                   rem |-> hi % pow2(r - 24)], LAMBDA t :
                 f32_pack(s, ex + r, t.q + round_up(t.q, t.rem, pow2(r - 25), lo > 0))))

\* the product of two significands, as [hi, lo]
wide_product(a, b) ==
    Bind([mid |-> (a \div 4096) * (b % 4096) + (a % 4096) * (b \div 4096),
          top |-> (a \div 4096) * (b \div 4096),
          low |-> (a % 4096) * (b % 4096)], LAMBDA p :
        Bind(p.low + (p.mid % 4096) * 4096, LAMBDA low :
            [hi |-> p.top + (p.mid \div 4096) + (low \div 16777216),
             lo |-> low % 16777216]))

\* f32 `*` on values
mul_values(x, y) ==
    IF f32_is_nan(x) \/ f32_is_nan(y) THEN f32_nan
    ELSE IF f32_is_infinite(x) \/ f32_is_infinite(y)
    THEN (IF f32_is_zero(x) \/ f32_is_zero(y) THEN f32_nan
          ELSE f32_infinity((x.s + y.s) % 2))
    ELSE IF f32_is_zero(x) \/ f32_is_zero(y) THEN f32_zero((x.s + y.s) % 2)
    ELSE Bind(wide_product(significand(x), significand(y)), LAMBDA w :
             f32_round((x.s + y.s) % 2, w.hi, w.lo, exponent(x) + exponent(y)))

\* f32 `*`
f32_mul(x, y) == Bind(<<x, y>>, LAMBDA p : mul_values(p[1], p[2]))

\* big + small for finite non-zero values, big the one further from zero:
\* a small one more than 26 binary places below leaves big as it is
add_ordered(big, small) ==
    Bind(exponent(big) - exponent(small), LAMBDA d :
        IF d > 26 THEN big
        ELSE Bind([hi |-> IF d <= 24 THEN significand(big) \div pow2(24 - d)
                          ELSE significand(big) * pow2(d - 24),
                   lo |-> IF d <= 24 THEN (significand(big) % pow2(24 - d)) * pow2(d)
                          ELSE 0], LAMBDA w :
            IF big.s = small.s
            THEN Bind(w.lo + significand(small), LAMBDA lo :
                     f32_round(big.s, w.hi + (lo \div 16777216), lo % 16777216,
                               exponent(small)))
            ELSE IF w.hi = 0 /\ w.lo = significand(small) THEN f32_zero(0)
            ELSE Bind(w.lo - significand(small), LAMBDA lo :
                     IF lo < 0
                     THEN f32_round(big.s, w.hi - 1, lo + 16777216, exponent(small))
                     ELSE f32_round(big.s, w.hi, lo, exponent(small)))))

\* f32 `+` on values
add_values(x, y) ==
    IF f32_is_nan(x) \/ f32_is_nan(y) THEN f32_nan
    ELSE IF f32_is_infinite(x)
    THEN (IF f32_is_infinite(y) /\ x.s # y.s THEN f32_nan ELSE x)
    ELSE IF f32_is_infinite(y) THEN y
    ELSE IF f32_is_zero(x)
    THEN (IF f32_is_zero(y) /\ x.s # y.s THEN f32_zero(0) ELSE y)
    ELSE IF f32_is_zero(y) THEN x
    ELSE IF x.e > y.e \/ (x.e = y.e /\ x.m >= y.m) THEN add_ordered(x, y)
    ELSE add_ordered(y, x)

\* f32 `+`
f32_add(x, y) == Bind(<<x, y>>, LAMBDA p : add_values(p[1], p[2]))

\* f32 unary `-`
f32_neg(x) == [s |-> 1 - x.s, e |-> x.e, m |-> x.m]

\* f32 `-`
f32_sub(x, y) == Bind(<<x, y>>, LAMBDA p : add_values(p[1], f32_neg(p[2])))

\* f32::abs
f32_abs(x) == [s |-> 0, e |-> x.e, m |-> x.m]

\* f32 `<`: false when either side is a NaN; the zeros are equal
f32_lt(x, y) ==
    Bind(<<x, y>>, LAMBDA p :
        /\ ~f32_is_nan(p[1])
        /\ ~f32_is_nan(p[2])
        /\ (IF p[1].s = 1 THEN -1 ELSE 1) * (p[1].e * 8388608 + p[1].m)
               < (IF p[2].s = 1 THEN -1 ELSE 1) * (p[2].e * 8388608 + p[2].m))

\* binary digits 4k-3 .. 4k from the top of n * 2^26, n below 2^26
digits_of_square(n, k) ==
    IF k <= 6 THEN (n \div pow2(26 - 4 * k)) % 16
    ELSE IF k = 7 THEN (n % 4) * 4
    ELSE 0

\* two more binary digits of a square root: st.root is the root of the
\* digits taken so far and st.rem what they leave over
sqrt_step(st, nibble) ==
    Bind(st.rem * 16 + nibble, LAMBDA rem :
        Bind(Greatest({ d \in 0..3 : d * (8 * st.root + d) <= rem }), LAMBDA d :
            [root |-> 4 * st.root + d, rem |-> rem - d * (8 * st.root + d)]))

\* the integer square root of n * 2^26 and what it leaves over, from step k
RECURSIVE sqrt_steps(_, _, _)
sqrt_steps(st, n, k) ==
    IF k > 13 THEN st
    ELSE Bind(sqrt_step(st, digits_of_square(n, k)), LAMBDA t : sqrt_steps(t, n, k + 1))

\* the square root of sig * 2^ex, sig > 0: the significand is moved up to
\* 24 digits and to an even exponent, and the root is taken to 26 digits
\* with one more that says whether anything was left over
sqrt_finite(sig, ex) ==
    Bind([n |-> sig * pow2(24 - bit_length(sig)),
          ex |-> ex - (24 - bit_length(sig))], LAMBDA v :
        Bind((IF (v.ex + 300) % 2 = 1 THEN [n |-> 2 * v.n, ex |-> v.ex - 1] ELSE v),
             LAMBDA w :
            Bind(sqrt_steps([root |-> 0, rem |-> 0], w.n, 1), LAMBDA st :
                Bind(2 * st.root + (IF st.rem = 0 THEN 0 ELSE 1), LAMBDA r :
                    f32_round(0, r \div 16777216, r % 16777216,
                              ((w.ex + 300) \div 2) - 150 - 14)))))

\* f32::sqrt
f32_sqrt(x) ==
    Bind(x, LAMBDA v :
        IF f32_is_nan(v) THEN f32_nan
        ELSE IF f32_is_zero(v) THEN v
        ELSE IF v.s = 1 THEN f32_nan
        ELSE IF f32_is_infinite(v) THEN v
        ELSE sqrt_finite(significand(v), exponent(v)))

\* 0.5
F_half == [s |-> 0, e |-> 126, m |-> 0]

\* f32::EPSILON, 2^-23
F32_EPSILON == [s |-> 0, e |-> 104, m |-> 0]

\* lines 69-74
cross(a, b) ==
    Bind(<<a, b>>, LAMBDA p :
        << f32_sub(f32_mul(p[1][2], p[2][3]), f32_mul(p[1][3], p[2][2])),
           f32_sub(f32_mul(p[1][3], p[2][1]), f32_mul(p[1][1], p[2][3])),
           f32_sub(f32_mul(p[1][1], p[2][2]), f32_mul(p[1][2], p[2][1])) >>)

\* lines 75-80
sub(a, b) == << f32_sub(a[1], b[1]), f32_sub(a[2], b[2]), f32_sub(a[3], b[3]) >>

\* lines 81-83
length(v) ==
    Bind(v, LAMBDA p :
        f32_sqrt(f32_add(f32_add(f32_mul(p[1], p[1]), f32_mul(p[2], p[2])),
                         f32_mul(p[3], p[3]))))

\* tri_area (lines 68-86)
tri_area(a, b, c) == f32_mul(length(cross(sub(c, b), sub(a, b))), F_half)

\* line 125: area < f32::EPSILON
area_lt_epsilon(area) == f32_lt(area, F32_EPSILON)

(***************************************************************************)
(* IndexedMesh::validate (lines 114-156).                                  *)
(***************************************************************************)
\* lines 121-123: self.vertices[face.vertices[k]]
vertex_at(m, n) == m.vertices[n + 1]

\* lines 119-131: the face has an area below the threshold
zero_area(m, face) ==
    area_lt_epsilon(tri_area(vertex_at(m, face.vertices[1]),
                             vertex_at(m, face.vertices[2]),
                             vertex_at(m, face.vertices[3])))

\* a mutant of facing_key: the edge itself, not its reverse
facing_key_same_direction(u, v) == <<u, v>>

\* line 137: the key looked up, &(v, u)
facing_key(u, v) == <<v, u>>

\* lines 134-141, for edge i (from 0) of face number f: the map afterwards
edge_step(map, face, f, i) ==
    LET u == face.vertices[i + 1]
        v == face.vertices[((i + 1) % 3) + 1]
    IN IF facing_key(u, v) \in DOMAIN map
       THEN [k \in DOMAIN map \ {facing_key(u, v)} |-> map[k]]
       ELSE [k \in DOMAIN map \cup {<<u, v>>} |->
                 IF k = <<u, v>> THEN <<f, i, (i + 1) % 3>> ELSE map[k]]

\* lines 133-142: the loop over the three edges of face number f
face_step(map, face, f) ==
    edge_step(edge_step(edge_step(map, face, f, 0), face, f, 1), face, f, 2)

ZeroAreaError(f) ==
    [kind |-> "Err", err |-> InvalidData("face has a zero-area face"), face |-> f,
     edge |-> <<>>]

UnmatchedEdgeError(entry) ==
    [kind |-> "Err", err |-> InvalidData("did not find facing edge for face"),
     face |-> entry[1], edge |-> <<entry[2], entry[3]>>]

ValidateOk == [kind |-> "Ok", err |-> NoError, face |-> 0, edge |-> <<>>]

\* validate has not returned
ValidateRunning == [kind |-> "Running", err |-> NoError, face |-> 0, edge |-> <<>>]

\* a mutant of has_unconnected: leftover edges are not looked at
has_unconnected_never(map) == FALSE

\* line 145: unconnected_edges.values().next() is Some
has_unconnected(map) == DOMAIN map # {}

\* lines 117-142: one round of the loop over the faces
ValidateFace ==
    /\ vres = ValidateRunning
    /\ fi < Len(vmesh.faces)
    /\ IF zero_area(vmesh, vmesh.faces[fi + 1])
       THEN /\ vres' = ZeroAreaError(fi)
            /\ UNCHANGED <<fi, unconnected_edges>>
       ELSE /\ unconnected_edges' = face_step(unconnected_edges, vmesh.faces[fi + 1], fi)
            /\ fi' = fi + 1
            /\ UNCHANGED vres
    /\ UNCHANGED <<vmesh, indexerVars, eqVars, codecVars>>

\* lines 145-155: the map's iteration order picks the edge that is named
ValidateEnd ==
    /\ vres = ValidateRunning
    /\ fi = Len(vmesh.faces)
    /\ IF has_unconnected(unconnected_edges)
       THEN \E k \in DOMAIN unconnected_edges :
                vres' = UnmatchedEdgeError(unconnected_edges[k])
       ELSE vres' = ValidateOk
    /\ UNCHANGED <<vmesh, fi, unconnected_edges, indexerVars, eqVars, codecVars>>

\* the map after faces k+1.. of m, from map with k faces done, or "zero" when
\* one of them has an area below the threshold
RECURSIVE validate_from(_, _, _)
validate_from(m, k, map) ==
    IF k = Len(m.faces) THEN [zero |-> FALSE, map |-> map]
    ELSE IF zero_area(m, m.faces[k + 1]) THEN [zero |-> TRUE, map |-> map]
    ELSE Bind(face_step(map, m.faces[k + 1], k), LAMBDA next :
              validate_from(m, k + 1, next))

\* validate(m) returns Ok(())
validate_is_ok(m) ==
    Bind(validate_from(m, 0, <<>>), LAMBDA r : ~r.zero /\ ~has_unconnected(r.map))

(***************************************************************************)
(* The meshes handed to validate: the corners of a tetrahedron with edges  *)
(* of length 1, 1/2, 2^-11 (a face area of exactly f32::EPSILON) or 2^-12  *)
(* (a face area below it) along the axes, one more vertex with a NaN, and  *)
(* up to MaxFaces faces.                                                   *)
(***************************************************************************)
MaxFaces == 4

\* the edge lengths, as the powers of 1/2
EdgeScales == {0, 1, 11, 12}

\* 2^-h
F_pow(h) == [s |-> 0, e |-> 127 - h, m |-> 0]

MeshVertices(h) ==
    << P_o, <<F_pow(h), F_zero, F_zero>>, <<F_zero, F_pow(h), F_zero>>,
       <<F_zero, F_zero, F_pow(h)>>, P_nan >>

Face(a, b, c) == [normal |-> P_z, vertices |-> <<a, b, c>>]

\* the four faces of the tetrahedron, wound outwards
TetrahedronFaces == { Face(0, 2, 1), Face(0, 1, 3), Face(0, 3, 2), Face(1, 2, 3) }

\* with them one of them reversed, a face with a vertex twice, and such a
\* face at the vertex with the NaN
FacePool == TetrahedronFaces \cup { Face(0, 1, 2), Face(0, 0, 1), Face(4, 4, 1) }

\* the sequences of up to MaxFaces faces out of a pool
FaceLists(pool) == UNION { [1..n -> pool] : n \in 0..MaxFaces }

\* every list of faces on the unit tetrahedron, and the lists of its own
\* faces on the smaller ones
ValidateMeshes ==
    { [vertices |-> MeshVertices(0), faces |-> fs] : fs \in FaceLists(FacePool) }
    \cup { [vertices |-> MeshVertices(h), faces |-> fs] :
               h \in EdgeScales \ {0}, fs \in FaceLists(TetrahedronFaces) }

InitValidate ==
    /\ InitIdleWriter
    /\ InitDecoder("none")
    /\ src = <<>> /\ srcFault = FALSE /\ seekFails = FALSE /\ spos = 0
    /\ InitIdleIndexer /\ InitIdleEq
    /\ vmesh \in ValidateMeshes
    /\ fi = 0
    /\ unconnected_edges = <<>>
    /\ vres = ValidateRunning

NextValidate == ValidateFace \/ ValidateEnd

SpecValidate == InitValidate /\ [][NextValidate]_vars

(***************************************************************************)
(* Properties of validate, stated on the mesh.                             *)
(***************************************************************************)
\* directed edge i (1..3) of a face
EdgeOf(face, i) == <<face.vertices[i], face.vertices[(i % 3) + 1]>>

Reverse(e) == <<e[2], e[1]>>

\* how many times the directed edge e occurs among the faces of m
Occurrences(m, e) ==
    Cardinality({ p \in (1..Len(m.faces)) \X (1..3) : EdgeOf(m.faces[p[1]], p[2]) = e })

\* the face has a vertex twice
IdenticalCorners(face) ==
    \/ face.vertices[1] = face.vertices[2]
    \/ face.vertices[2] = face.vertices[3]
    \/ face.vertices[3] = face.vertices[1]

\* a finite f32 as [n, p], the number n * 2^p with n odd, or n = 0
Dyadic(f) ==
    LET sig == IF f.e = 0 THEN f.m ELSE 8388608 + f.m
        tz == CHOOSE k \in 0..23 : sig % pow2(k) = 0 /\ (sig \div pow2(k)) % 2 = 1
    IN IF sig = 0 THEN [n |-> 0, p |-> 0]
       ELSE [n |-> (IF f.s = 1 THEN -1 ELSE 1) * (sig \div pow2(tz)),
             p |-> (IF f.e = 0 THEN 1 ELSE f.e) - 150 + tz]

FiniteVertex(m, n) == \A i \in 1..3 : m.vertices[n + 1][i].e < 255

\* the coordinates of the corners of a face, corner by corner
FaceCoordinates(m, face) ==
    [c \in 1..3 |-> [i \in 1..3 |-> Dyadic(m.vertices[face.vertices[c] + 1][i])]]

\* the least power of two that the coordinates of a face are multiples of
FaceQuantum(m, face) ==
    LET ps == { FaceCoordinates(m, face)[c][i].p : c, i \in 1..3 }
    IN CHOOSE q \in ps : \A r \in ps : q <= r

\* corner c of a face in multiples of 2^q
InUnits(m, face, c, q) ==
    [i \in 1..3 |-> FaceCoordinates(m, face)[c][i].n
                        * pow2(FaceCoordinates(m, face)[c][i].p - q)]

\* |(c - b) x (a - b)|^2 of three integer points
CrossSquared(a, b, c) ==
    LET u == [i \in 1..3 |-> c[i] - b[i]]
        v == [i \in 1..3 |-> a[i] - b[i]]
        x == u[2] * v[3] - u[3] * v[2]
        y == u[3] * v[1] - u[1] * v[3]
        z == u[1] * v[2] - u[2] * v[1]
    IN x * x + y * y + z * z

\* the area of a face with finite corners is below 2^-23, in exact
\* arithmetic: |(c - b) x (a - b)|^2 < 2^-44, the corners being multiples of
\* 2^q with small factors
NearZeroArea(m, face) ==
    LET q == FaceQuantum(m, face)
        n == CrossSquared(InUnits(m, face, 1, q), InUnits(m, face, 2, q),
                          InUnits(m, face, 3, q))
        t == (0 - 44) - 4 * q
    IN \/ n = 0
       \/ t >= 31
       \/ t > 0 /\ n < pow2(t)

\* the face is degenerate: a vertex twice, or finite corners that span a
\* near-zero area, one below the validator's threshold f32::EPSILON
Degenerate(m, face) ==
    \/ IdenticalCorners(face)
    \/ /\ \A i \in 1..3 : FiniteVertex(m, face.vertices[i])
       /\ NearZeroArea(m, face)

NoDegenerateFace(m) == \A f \in 1..Len(m.faces) : ~Degenerate(m, m.faces[f])

\* every directed edge occurs once and its reverse occurs once
ClosedAndOriented(m) ==
    \A f \in 1..Len(m.faces) : \A i \in 1..3 :
        /\ Occurrences(m, EdgeOf(m.faces[f], i)) = 1
        /\ Occurrences(m, Reverse(EdgeOf(m.faces[f], i))) = 1

ValidateReturned == vres.kind \in {"Ok", "Err"}

IsUnmatchedEdgeError(r) ==
    r.kind = "Err" /\ r.err = InvalidData("did not find facing edge for face")

IsZeroAreaError(r) ==
    r.kind = "Err" /\ r.err = InvalidData("face has a zero-area face")

\* C13: validate returns success on every mesh that has no degenerate face
\* and in which every directed edge occurs in exactly one face and its reverse
\* in exactly one face, in every order of the faces
C13_AcceptsClosedOriented ==
    (ValidateReturned /\ NoDegenerateFace(vmesh) /\ ClosedAndOriented(vmesh))
        => vres = ValidateOk

\* C13's case: the four faces of the tetrahedron whose faces along the axes
\* have an area of exactly f32::EPSILON, not in the order the pool lists
\* them, validated
C13_Witness ==
    /\ ValidateReturned
    /\ vmesh.vertices = MeshVertices(11)
    /\ Len(vmesh.faces) = 4
    /\ vmesh.faces[1] = Face(1, 2, 3)
    /\ vmesh.faces[4] = Face(0, 1, 3)
    /\ NoDegenerateFace(vmesh)
    /\ ClosedAndOriented(vmesh)
    /\ vres = ValidateOk

\* C14: whenever validate returns success, no face is degenerate and every
\* directed edge of the mesh occurs exactly once and its reverse exactly once;
\* so no mesh with a repeated face or a same-direction duplicate of an edge is
\* accepted
C14_AcceptsOnlyManifold ==
    vres = ValidateOk =>
        /\ NoDegenerateFace(vmesh)
        /\ ClosedAndOriented(vmesh)

\* C15: on a mesh with no degenerate face in which some face has a directed
\* edge whose reverse is an edge of no face, validate fails with the
\* unmatched-edge error
C15_HoleDetected ==
    ( /\ ValidateReturned
      /\ NoDegenerateFace(vmesh)
      /\ \E f \in 1..Len(vmesh.faces) : \E i \in 1..3 :
             Occurrences(vmesh, Reverse(EdgeOf(vmesh.faces[f], i))) = 0 )
        => IsUnmatchedEdgeError(vres)

\* C15's case: three of the four faces of the tetrahedron with edges of
\* length 1/2
C15_Witness ==
    /\ ValidateReturned
    /\ vmesh.vertices = MeshVertices(1)
    /\ Len(vmesh.faces) = 3
    /\ { vmesh.faces[f] : f \in 1..3 } = { Face(0, 2, 1), Face(0, 1, 3), Face(1, 2, 3) }
    /\ IsUnmatchedEdgeError(vres)

\* C16: when some face has a vertex twice, validate fails with the zero-area
\* error naming the lowest-index such face, whatever the edges do; the
\* unmatched-edge error is returned only when no face is degenerate
C16_DegenerateRejected ==
    ValidateReturned =>
        /\ \A f \in 1..Len(vmesh.faces) :
               ( /\ IdenticalCorners(vmesh.faces[f])
                 /\ \A g \in 1..(f - 1) : ~IdenticalCorners(vmesh.faces[g]) )
               => vres = ZeroAreaError(f - 1)
        /\ IsUnmatchedEdgeError(vres) => NoDegenerateFace(vmesh)

\* the orders of n things
FaceOrders(n) == { p \in [1..n -> 1..n] : \A a, b \in 1..n : p[a] = p[b] => a = b }

\* m with its faces in the order p
Permuted(m, p) == [vertices |-> m.vertices, faces |-> [f \in 1..Len(m.faces) |-> m.faces[p[f]]]]

\* C18: for a mesh with no degenerate face, validate succeeds on the mesh
\* with its faces in any other order iff it succeeds on the mesh
C18_OrderIndependent ==
    (ValidateReturned /\ NoDegenerateFace(vmesh)) =>
        \A p \in FaceOrders(Len(vmesh.faces)) :
            validate_is_ok(Permuted(vmesh, p)) <=> (vres = ValidateOk)

\* C19: once a next() call of the ASCII decoder has signalled completion,
\* every later next() call signals completion too: no triangle and no error
\* comes after the end, whatever follows endsolid in the source
C19_EndIsFinal ==
    ctor = "ascii" =>
        \A c, d \in 1..Len(out) :
            (c < d /\ out[c].kind = "None") => out[d].kind = "None"

(***************************************************************************)
(* impl PartialEq for Vec3<f32> (lines 53-65) and the derived PartialEq of *)
(* IndexedTriangle and IndexedMesh (lines 92, 103).                        *)
(***************************************************************************)
\* +inf
F_inf == [s |-> 0, e |-> 255, m |-> 0]

\* the components eq is called on
EqComponents == {F_zero, F_negzero, F_one, F_two, F_nan, F_inf}

EqVectors == { <<x, y, F_zero>> : x, y \in EqComponents }

\* line 7: DEFAULT_EPSILON, the f32 nearest to 1e-6
DEFAULT_EPSILON == [s |-> 0, e |-> 107, m |-> 407485]

\* the macro eq_e (lines 53-57): ($v2 - $v2).abs() < $ep
eq_e(v1, v2) == f32_lt(f32_abs(f32_sub(v2, v2)), DEFAULT_EPSILON)

\* Vec3<f32>::eq (lines 60-64)
vec3_eq(self, other) ==
    eq_e(self[1], other[1]) /\ eq_e(self[2], other[2]) /\ eq_e(self[3], other[3])

\* #[derive(PartialEq)] of IndexedTriangle (line 92)
indexed_triangle_eq(self, other) ==
    vec3_eq(self.normal, other.normal) /\ self.vertices = other.vertices

\* #[derive(PartialEq)] of IndexedMesh (line 103): Vec equality is equal
\* lengths and equal elements
indexed_mesh_eq(self, other) ==
    /\ Len(self.vertices) = Len(other.vertices)
    /\ \A i \in 1..Len(self.vertices) : vec3_eq(self.vertices[i], other.vertices[i])
    /\ Len(self.faces) = Len(other.faces)
    /\ \A i \in 1..Len(self.faces) : indexed_triangle_eq(self.faces[i], other.faces[i])

\* the mesh of one face on the vertices o, a, b
EqMesh(a, b) == [vertices |-> <<P_o, a, b>>, faces |-> <<Face(0, 1, 2)>>]

\* a == b on the two vectors
VecEq ==
    /\ eres.of = "none"
    /\ eres' = [of |-> "vec3", eq |-> vec3_eq(ea, eb)]
    /\ UNCHANGED <<ea, eb, indexerVars, validateVars, codecVars>>

\* m1 == m2 on two meshes that have the two vectors at the same place
MeshEq ==
    /\ eres.of = "none"
    /\ eres' = [of |-> "mesh", eq |-> indexed_mesh_eq(EqMesh(P_x, ea), EqMesh(P_x, eb))]
    /\ UNCHANGED <<ea, eb, indexerVars, validateVars, codecVars>>

InitEq ==
    /\ InitIdleWriter
    /\ InitDecoder("none")
    /\ src = <<>> /\ srcFault = FALSE /\ seekFails = FALSE /\ spos = 0
    /\ InitIdleIndexer /\ InitIdleValidate
    /\ ea \in EqVectors
    /\ eb \in EqVectors
    /\ eres = [of |-> "none", eq |-> FALSE]

NextEq == VecEq \/ MeshEq

SpecEq == InitEq /\ [][NextEq]_vars

\* |x - y| < 1e-6 of two of the components, which are a NaN, an infinity, a
\* zero, 1 or 2: both are finite, and they are the same number or both zero
WithinEpsilon(x, y) ==
    /\ x.e < 255
    /\ y.e < 255
    /\ (x = y \/ (x.e = 0 /\ x.m = 0 /\ y.e = 0 /\ y.m = 0))

\* C20: a == b on Vec3 holds iff |a[i] - b[i]| < 1e-6 for each of the three
\* components; so vectors with a component further apart compare unequal, and
\* so do two IndexedMesh values whose vertex lists differ that much in a
\* coordinate
C20_EpsilonOnBothOperands ==
    /\ eres.of = "vec3" => (eres.eq <=> \A i \in 1..3 : WithinEpsilon(ea[i], eb[i]))
    /\ (eres.of = "mesh" /\ \E i \in 1..3 : ~WithinEpsilon(ea[i], eb[i])) => ~eres.eq
=============================================================================
